---------------------------- MODULE Spec2Model ----------------------------
(***************************************************************************)
(* farm-patrol: the historical visit pipeline of the edge function         *)
(* process-historical-visits (point-in-polygon, raw visit detection, gap   *)
(* merge, replace of block_visits, block_metrics upsert), the ping import   *)
(* of the edge function import-gps-data, the coverage statistics of the    *)
(* hook useVisitCoverage and the live loop of the hook useGpsSimulator.    *)
(*                                                                         *)
(* Timestamps are integers counting minutes; new Date(ts).getTime() is     *)
(* ts * MsPerMinute.  A nullable value is a sequence of length 0 or 1.     *)
(***************************************************************************)
EXTENDS Integers, Sequences, FiniteSets, Bags, TLC

\* ------------------------------------------------------------------------
\* Bounds of the model
\* ------------------------------------------------------------------------

\* longest ping stream of the segmenter/merger specification
MaxPings == 5

\* most pings in the body of one import request
MaxImport == 2

\* invocations of the edge function in one behaviour
MaxRuns == 3

\* failures in one behaviour: storage calls that answer with an error, and
\* kills of the running function
MaxFaults == 1

\* ------------------------------------------------------------------------
\* Program constants
\* ------------------------------------------------------------------------

MERGE_GAP_MINUTES == 30

MsPerMinute == 60000

\* Rows per insert of block_visits.  The code inserts 100 rows per batch; the
\* model scales the batch to 2 rows so that a block's visits span several
\* batches.
BatchSize == 2

\* Rows per page of the gps_pings read.  The code reads 1000 rows per page;
\* the model scales the page to 4 rows so that a read spans several pages.
PageSize == 4

\* Rows per insert of gps_pings.  The import inserts 500 rows per batch; the
\* model scales the batch to 1 row so that an import spans several batches.
ImportBatchSize == 1

\* Tolerance, in minutes, for a timestamp ahead of the clock.
FutureToleranceMinutes == 60

\* ------------------------------------------------------------------------
\* Geometry
\* ------------------------------------------------------------------------

\* The edge test with `<=` in place of `<`.
EdgeCrossedInclusive(x, y, xi, yi, xj, yj) ==
    /\ (yi > y) # (yj > y)
    /\ IF yj - yi > 0
         THEN (x - xi) * (yj - yi) <= (xj - xi) * (y - yi)
         ELSE (x - xi) * (yj - yi) >= (xj - xi) * (y - yi)

\* One edge (i, j) of the ring against the horizontal ray from (x, y):
\*   ((yi > y) !== (yj > y)) && (x < (xj - xi) * (y - yi) / (yj - yi) + xi)
\* The first conjunct makes yj - yi non-zero; the division is then removed by
\* multiplying both sides with yj - yi, turning the comparison when it is
\* negative, so the test is computed exactly on integer coordinates.
EdgeCrossed(x, y, xi, yi, xj, yj) ==
    /\ (yi > y) # (yj > y)
    /\ IF yj - yi > 0
         THEN (x - xi) * (yj - yi) < (xj - xi) * (y - yi)
         ELSE (x - xi) * (yj - yi) > (xj - xi) * (y - yi)

\* The for loop of isPointInPolygon from index i on (1-based), j the previous
\* vertex, inside the flag so far.
RECURSIVE RayCast(_, _, _, _, _)
RayCast(point, polygon, i, j, inside) ==
    IF i > Len(polygon) THEN inside
    ELSE RayCast(point, polygon, i + 1, i,
                 IF EdgeCrossed(point[1], point[2],
                                polygon[i][1], polygon[i][2],
                                polygon[j][1], polygon[j][2])
                   THEN ~inside ELSE inside)

isPointInPolygon(point, polygon) ==
    RayCast(point, polygon, 1, Len(polygon), FALSE)

\* geojson is a record with a type field; the result is <<ring>> or <<>> (null).
getPolygonCoordinates(geojson) ==
    IF geojson.type = "Polygon"
      THEN (IF Len(geojson.coordinates) > 0
              THEN <<geojson.coordinates[1]>> ELSE <<>>)
    ELSE IF geojson.type = "Feature" /\ geojson.geometry.type = "Polygon"
      THEN (IF Len(geojson.geometry.coordinates) > 0
              THEN <<geojson.geometry.coordinates[1]>> ELSE <<>>)
    ELSE <<>>

\* ------------------------------------------------------------------------
\* Step 1: raw visit detection, one tractor against one polygon
\* ------------------------------------------------------------------------

\* State of the loop: currentVisit (null or {started_at, pings}) and rawVisits.
SegmentInit == [currentVisit |-> <<>>, rawVisits |-> <<>>]

RawVisitOf(cv) ==
    [started_at |-> cv.started_at,
     ended_at   |-> cv.pings[Len(cv.pings)].ts,
     ping_count |-> Len(cv.pings)]

\* SegmentPing closing the visit at the ping that left the polygon.
SegmentPingEndAtExit(st, ping, polygon) ==
    IF isPointInPolygon(<<ping.lon, ping.lat>>, polygon)
      THEN IF st.currentVisit = <<>>
             THEN [st EXCEPT !.currentVisit =
                      <<[started_at |-> ping.ts, pings |-> <<ping>>]>>]
             ELSE [st EXCEPT !.currentVisit =
                      <<[started_at |-> st.currentVisit[1].started_at,
                         pings |-> Append(st.currentVisit[1].pings, ping)]>>]
    ELSE IF st.currentVisit # <<>>
      THEN [currentVisit |-> <<>>,
            rawVisits |-> Append(st.rawVisits,
                [started_at |-> st.currentVisit[1].started_at,
                 ended_at   |-> ping.ts,
                 ping_count |-> Len(st.currentVisit[1].pings)])]
    ELSE st

\* Body of `for (const ping of pings)`.
SegmentPing(st, ping, polygon) ==
    IF isPointInPolygon(<<ping.lon, ping.lat>>, polygon)
      THEN IF st.currentVisit = <<>>
             THEN [st EXCEPT !.currentVisit =
                      <<[started_at |-> ping.ts, pings |-> <<ping>>]>>]
             ELSE [st EXCEPT !.currentVisit =
                      <<[started_at |-> st.currentVisit[1].started_at,
                         pings |-> Append(st.currentVisit[1].pings, ping)]>>]
    ELSE IF st.currentVisit # <<>>
      THEN [currentVisit |-> <<>>,
            rawVisits |-> Append(st.rawVisits, RawVisitOf(st.currentVisit[1]))]
    ELSE st

\* "Handle ongoing visit (tractor still in block at end of data)".
SegmentEnd(st) ==
    IF st.currentVisit # <<>> /\ Len(st.currentVisit[1].pings) > 0
      THEN Append(st.rawVisits, RawVisitOf(st.currentVisit[1]))
      ELSE st.rawVisits

RECURSIVE SegmentFrom(_, _, _, _)
SegmentFrom(st, pings, i, polygon) ==
    IF i > Len(pings) THEN st
    ELSE SegmentFrom(SegmentPing(st, pings[i], polygon), pings, i + 1, polygon)

\* rawVisits of one tractor's pings against one polygon.
RawVisits(pings, polygon) ==
    SegmentEnd(SegmentFrom(SegmentInit, pings, 1, polygon))

\* ------------------------------------------------------------------------
\* Step 2: merge of raw visits closer than MERGE_GAP_MINUTES
\* ------------------------------------------------------------------------

\* State of the loop: currentMergedVisit (null or a visit) and the visits pushed
\* to blockVisits for this tractor.
MergeInit == [currentMergedVisit |-> <<>>, pushed |-> <<>>]

GetTime(ts) == ts * MsPerMinute

\* GapBelowThreshold with <= for <.
GapAtMostThreshold(visit, cur) ==
    (GetTime(visit.started_at) - GetTime(cur.ended_at)) \div MsPerMinute
        <= MERGE_GAP_MINUTES

\* GapBelowThreshold comparing the gap in milliseconds with the minutes.
GapMsBelowThreshold(visit, cur) ==
    GetTime(visit.started_at) - GetTime(cur.ended_at) < MERGE_GAP_MINUTES

\* gapMinutes < MERGE_GAP_MINUTES with gapMinutes = gapMs / (1000 * 60); the
\* division is exact on whole minutes.
GapBelowThreshold(visit, cur) ==
    (GetTime(visit.started_at) - GetTime(cur.ended_at)) \div MsPerMinute
        < MERGE_GAP_MINUTES

WithTractor(tractorId, v) ==
    [tractor_id |-> tractorId, started_at |-> v.started_at,
     ended_at |-> v.ended_at, ping_count |-> v.ping_count]

\* MergeVisit that extends the visit without adding the ping count.
MergeVisitKeepCount(st, visit, tractorId) ==
    IF st.currentMergedVisit = <<>>
      THEN [st EXCEPT !.currentMergedVisit = <<visit>>]
    ELSE IF GapBelowThreshold(visit, st.currentMergedVisit[1])
      THEN [st EXCEPT !.currentMergedVisit =
               <<[started_at |-> st.currentMergedVisit[1].started_at,
                  ended_at   |-> visit.ended_at,
                  ping_count |-> st.currentMergedVisit[1].ping_count]>>]
    ELSE [currentMergedVisit |-> <<visit>>,
          pushed |-> Append(st.pushed,
                            WithTractor(tractorId, st.currentMergedVisit[1]))]

\* Body of `for (const visit of rawVisits)`.
MergeVisit(st, visit, tractorId) ==
    IF st.currentMergedVisit = <<>>
      THEN [st EXCEPT !.currentMergedVisit = <<visit>>]
    ELSE IF GapBelowThreshold(visit, st.currentMergedVisit[1])
      THEN [st EXCEPT !.currentMergedVisit =
               <<[started_at |-> st.currentMergedVisit[1].started_at,
                  ended_at   |-> visit.ended_at,
                  ping_count |-> st.currentMergedVisit[1].ping_count
                                   + visit.ping_count]>>]
    ELSE [currentMergedVisit |-> <<visit>>,
          pushed |-> Append(st.pushed,
                            WithTractor(tractorId, st.currentMergedVisit[1]))]

\* "Don't forget the last merged visit".
MergeEnd(st, tractorId) ==
    IF st.currentMergedVisit # <<>>
      THEN Append(st.pushed, WithTractor(tractorId, st.currentMergedVisit[1]))
      ELSE st.pushed

RECURSIVE MergeFrom(_, _, _, _)
MergeFrom(st, rawVisits, i, tractorId) ==
    IF i > Len(rawVisits) THEN st
    ELSE MergeFrom(MergeVisit(st, rawVisits[i], tractorId), rawVisits, i + 1,
                   tractorId)

\* The visits one tractor contributes to blockVisits.
MergedVisits(rawVisits, tractorId) ==
    MergeEnd(MergeFrom(MergeInit, rawVisits, 1, tractorId), tractorId)


\* ------------------------------------------------------------------------
\* Inputs of the model
\* ------------------------------------------------------------------------

Tractors == {"t1", "t2"}

BlockIds == {"b1", "b2"}

\* Closed outer rings of (lon, lat) pairs on an integer grid.
RingA == << <<0, 0>>, <<2, 0>>, <<2, 2>>, <<0, 2>>, <<0, 0>> >>

RingB == << <<4, 0>>, <<6, 0>>, <<6, 2>>, <<4, 2>>, <<4, 0>> >>

\* (lon, lat) positions: inside RingA, on RingA's right edge, outside both
\* rings, inside RingB.
PointInA == <<1, 1>>

PointEdgeA == <<2, 1>>

PointOut == <<3, 1>>

PointInB == <<5, 1>>

\* Timestamps (minutes) a ping may carry: they give gaps below, equal to and
\* above MERGE_GAP_MINUTES.
Times == {0, 1, 15, 30, 31, 45}

Ping(tractor, ts, point) ==
    [tractor_id |-> tractor, ts |-> ts, lon |-> point[1], lat |-> point[2]]

\* One tractor's ping streams of length n in ascending timestamp order, one
\* ping per timestamp.
RECURSIVE StreamsOfLen(_, _, _)
StreamsOfLen(n, tractor, points) ==
    IF n = 0 THEN {<<>>}
    ELSE UNION {{Append(s, Ping(tractor, t, p)) :
                   t \in {u \in Times : s = <<>> \/ u > s[Len(s)].ts},
                   p \in points} :
                s \in StreamsOfLen(n - 1, tractor, points)}

Streams(tractor, points) ==
    UNION {StreamsOfLen(n, tractor, points) : n \in 0..MaxPings}

\* ------------------------------------------------------------------------
\* State
\* ------------------------------------------------------------------------

VARIABLES
    segPings,    \* segmenter/merger run: the ping stream
    segPc,       \* "segment", "merge" or "done"
    segIdx,      \* next element of the loop being run
    segState,    \* currentVisit and rawVisits of step 1
    segRaw,      \* rawVisits once step 1 has ended
    mrgState,    \* currentMergedVisit and pushed visits of step 2
    segVisits,   \* the tractor's visits once step 2 has ended
    gps_pings,     \* table gps_pings: a set of rows
    blocks,        \* table blocks: block id -> geometry_geojson
    block_visits,  \* table block_visits: a bag of rows (the id is left out)
    block_metrics, \* table block_metrics: block id -> null or the row
    now,           \* the clock, in minutes
    pc,            \* where the handler is: "idle", the storage call it
                   \* awaits ("readBlocks", "readPings", "delete", "insert",
                   \* "upsert") or "responded"
    req,           \* the request body: block_id, tractor_id (null or a value)
    rblocks,       \* `blocks`: the rows the blocks query returned
    pingOrder,     \* the rows of the pings query in the order it returns them
    allPings,      \* `allPings`
    offset,        \* `offset`
    bi,            \* position in rblocks of the block being processed
    batchAt,       \* `i` of the batch loop
    results,       \* `results`: visitsCreated, metricsUpdated, errors
    response,      \* null or the response sent
    runs,          \* history: invocations so far
    nfaults,       \* history: failures so far
    faults,        \* history: storage calls that failed in this invocation
    runBefore,     \* history: block_visits when this invocation began
    unitBefore,    \* history: block_visits when this block's unit began
    prevRun,       \* history: null or the previous invocation, if it responded
    interrupted,   \* history: null or the killed invocation being re-run
    metVisits,   \* metrics computation: `blockVisits` of the block
    metClock,    \* null or `now`, once read
    metRow,      \* null or `metricsUpdate`
    imports,     \* import-gps-data: the locals of each running request
    tractors,    \* table tractors: tractor id -> null or the last position
    geoPoint,    \* containment: the point asked about
    geoShape,    \* containment: the ring asked about, with what it encloses
    geoAnswers,  \* containment: what the calls made so far returned
    covIn,       \* coverage: block, pings and what the turf calls give
    covStats,    \* coverage: not yet computed, or `stats` (null or a record)
    liveBlocks,  \* live loop: `blocks`, a list of block ids
    livePath,    \* live loop: the positions of the tractor, one per tick
    liveTick,    \* live loop: ticks done
    liveLast,    \* live loop: lastBlockId of the tractor (null or a block id)
    liveVisits,  \* live loop: the onBlockVisit calls, as <<tick, block id>>
    conRuns,     \* concurrent runs: the locals of each of the two requests
    conVisits,   \* concurrent runs: table block_visits (a bag of rows)
    conMetrics,  \* concurrent runs: null or the block_metrics row
    pageRows,    \* paginated read: the rows of gps_pings in the scope
    pagePc,      \* paginated read: "off", "read", "done" or "thrown"
    pageAll,     \* paginated read: `allPings`
    pageOffset,  \* paginated read: `offset`
    pageByTractor \* paginated read: null or `pingsByTractor`

segVars == <<segPings, segPc, segIdx, segState, segRaw, mrgState, segVisits>>

dbVars == <<gps_pings, blocks, block_visits, block_metrics, now>>

runVars == <<pc, req, rblocks, pingOrder, allPings, offset, bi, batchAt,
             results, response>>

histVars == <<runs, nfaults, faults, runBefore, unitBefore, prevRun,
              interrupted>>

metVars == <<metVisits, metClock, metRow>>

impVars == <<imports, tractors>>

coreVars == <<segVars, dbVars, runVars, histVars, metVars, impVars>>

geoVars == <<geoPoint, geoShape, geoAnswers>>

covVars == <<covIn, covStats>>

liveVars == <<liveBlocks, livePath, liveTick, liveLast, liveVisits>>

conVars == <<conRuns, conVisits, conMetrics>>

pageVars == <<pageRows, pagePc, pageAll, pageOffset, pageByTractor>>

auxVars == <<geoVars, covVars, liveVars, conVars, pageVars>>

\* What each of the small specifications leaves alone.
geoRest == <<coreVars, covVars, liveVars, conVars, pageVars>>

covRest == <<coreVars, geoVars, liveVars, conVars, pageVars>>

liveRest == <<coreVars, geoVars, covVars, conVars, pageVars>>

conRest == <<coreVars, geoVars, covVars, liveVars, pageVars>>

pageRest == <<coreVars, geoVars, covVars, liveVars, conVars>>

restVars == <<metVars, impVars, auxVars>>

vars == <<segVars, dbVars, runVars, histVars, restVars>>

\* ------------------------------------------------------------------------
\* Tables and requests of the reprocessing run
\* ------------------------------------------------------------------------

TenantId == "farm"

PolygonOf(ring) == [type |-> "Polygon", coordinates |-> <<ring>>]

FeatureOf(ring) ==
    [type |-> "Feature",
     geometry |-> [type |-> "Polygon", coordinates |-> <<ring>>]]

\* A geometry_geojson that is no polygon.
PointGeometry == [type |-> "Point", coordinates |-> PointOut]

\* A ring of two vertices: a Polygon whose ring is too short and not closed.
RingTwo == << <<4, 0>>, <<6, 2>> >>

\* Routes a tractor may have driven: <<timestamp, position>> pairs.
Routes(tractor) ==
    IF tractor = "t1"
      THEN { <<>>,
             << <<0, PointInA>>, <<15, PointOut>>, <<30, PointInA>>,
                <<45, PointInB>> >>,
             << <<1, PointInA>>, <<15, PointOut>>, <<30, PointInA>> >> }
      ELSE { <<>>,
             << <<0, PointInB>>, <<31, PointInA>> >> }

RoutePings(tractor, route) ==
    {Ping(tractor, route[k][1], route[k][2]) : k \in 1..Len(route)}

\* The clock values a run may read.
ClockValues == {1470, 10110}

\* A block id of no block.
UnknownBlock == "b0"

\* Request bodies: tenant_id is always given, block_id and tractor_id are
\* optional; a tractor filter names t1.
Requests ==
    [block_id : {<<>>} \cup {<<b>> : b \in BlockIds \cup {UnknownBlock}},
     tractor_id : {<<>>, <<"t1">>}]

NoResults == [visitsCreated |-> 0, metricsUpdated |-> 0, errors |-> <<>>]

\* All orders of the elements of a set.
RECURSIVE SeqsOf(_)
SeqsOf(S) ==
    IF S = {} THEN {<<>>}
    ELSE UNION {{<<x>> \o q : q \in SeqsOf(S \ {x})} : x \in S}

\* blocksQuery: the tenant's blocks, one block if block_id is given.
BlocksQuery(r) ==
    {b \in DOMAIN blocks : r.block_id = <<>> \/ r.block_id = <<b>>}

\* pingsQuery: the tenant's pings, one tractor's if tractor_id is given.
PingsQuery(r) ==
    {p \in gps_pings : r.tractor_id = <<>> \/ r.tractor_id = <<p.tractor_id>>}

\* .order("ts", { ascending: true }): the orders of S ascending in ts; rows of
\* equal ts come in any order.
RECURSIVE OrderedByTs(_)
OrderedByTs(S) ==
    IF S = {} THEN {<<>>}
    ELSE UNION {{<<p>> \o q : q \in OrderedByTs(S \ {p})} :
                p \in {x \in S : \A y \in S : x.ts <= y.ts}}

\* .range(offset, offset + pageSize - 1) of the ordered rows.
PageOf(rows, off) ==
    SubSeq(rows, off + 1,
           IF off + PageSize < Len(rows) THEN off + PageSize ELSE Len(rows))

\* Keys of pingsByTractor in insertion order.
RECURSIVE TractorKeys(_, _, _)
TractorKeys(pings, k, keys) ==
    IF k > Len(pings) THEN keys
    ELSE TractorKeys(pings, k + 1,
            IF \E n \in 1..Len(keys) : keys[n] = pings[k].tractor_id
              THEN keys ELSE Append(keys, pings[k].tractor_id))

PingsOfTractor(pings, tractor) ==
    SelectSeq(pings, LAMBDA p : p.tractor_id = tractor)

\* blockVisits of one polygon: steps 1 and 2 for every entry of
\* pingsByTractor, in its order.
RECURSIVE BlockVisitsFrom(_, _, _, _)
BlockVisitsFrom(pings, keys, k, polygon) ==
    IF k > Len(keys) THEN <<>>
    ELSE MergedVisits(RawVisits(PingsOfTractor(pings, keys[k]), polygon),
                      keys[k])
         \o BlockVisitsFrom(pings, keys, k + 1, polygon)

BlockVisitsOf(pings, polygon) ==
    BlockVisitsFrom(pings, TractorKeys(pings, 1, <<>>), 1, polygon)

\* One element of visitsToInsert.
VisitRow(blockId, v) ==
    [block_id |-> blockId, tenant_id |-> TenantId,
     tractor_id |-> v.tractor_id, started_at |-> v.started_at,
     ended_at |-> v.ended_at, ping_count |-> v.ping_count]

VisitsToInsert(blockId, blockVisits) ==
    [k \in 1..Len(blockVisits) |-> VisitRow(blockId, blockVisits[k])]

\* visitsToInsert.slice(i, i + 100 + 1): a slice one row too long.
BatchOfOneMore(rows, i) ==
    SubSeq(rows, i + 1,
           IF i + BatchSize + 1 < Len(rows) THEN i + BatchSize + 1
           ELSE Len(rows))

\* visitsToInsert.slice(i, i + 100)
BatchOf(rows, i) ==
    SubSeq(rows, i + 1,
           IF i + BatchSize < Len(rows) THEN i + BatchSize ELSE Len(rows))

\* deleteQuery that leaves out the tractor filter.
DeleteMatchesBlock(row, blockId, r) == row.block_id = blockId

\* deleteQuery that leaves out the block.
DeleteMatchesAnyBlock(row, blockId, r) ==
    r.tractor_id = <<>> \/ r.tractor_id = <<row.tractor_id>>

\* deleteQuery matched against a row.
DeleteMatches(row, blockId, r) ==
    /\ row.block_id = blockId
    /\ r.tractor_id = <<>> \/ r.tractor_id = <<row.tractor_id>>

\* DeleteRows that removes nothing.
DeleteNothing(table, blockId, r) == table

\* .delete().match(deleteQuery) on block_visits.
DeleteRows(table, blockId, r) ==
    [row \in {x \in DOMAIN table : ~DeleteMatches(x, blockId, r)} |->
        table[row]]

\* .insert(batch) on block_visits.
RECURSIVE InsertRows(_, _, _)
InsertRows(table, rows, k) ==
    IF k > Len(rows) THEN table
    ELSE InsertRows(table (+) SetToBag({rows[k]}), rows, k + 1)

\* v.ended_at || v.started_at: ended_at of a visit in blockVisits is always a
\* timestamp.
EndOrStart(v) == v.ended_at

\* LatestFrom that keeps the last of the visits with the latest end.
RECURSIVE LatestFromLastTie(_, _, _)
LatestFromLastTie(latest, visits, k) ==
    IF k > Len(visits) THEN latest
    ELSE LatestFromLastTie(IF GetTime(EndOrStart(visits[k]))
                                >= GetTime(EndOrStart(latest))
                             THEN visits[k] ELSE latest,
                           visits, k + 1)

\* blockVisits.reduce(...): the first visit with the latest end.
RECURSIVE LatestFrom(_, _, _)
LatestFrom(latest, visits, k) ==
    IF k > Len(visits) THEN latest
    ELSE LatestFrom(IF GetTime(EndOrStart(visits[k]))
                         > GetTime(EndOrStart(latest))
                      THEN visits[k] ELSE latest,
                    visits, k + 1)

LastVisit(visits) ==
    IF Len(visits) > 0 THEN <<LatestFrom(visits[1], visits, 2)>> ELSE <<>>

\* PassesSince that counts the pings of the visits in the window.
PassesSincePings(visits, clock, ms) ==
    Cardinality({<<k, n>> \in (1..Len(visits)) \X (1..MaxPings) :
                   /\ n <= visits[k].ping_count
                   /\ GetTime(visits[k].started_at) >= GetTime(clock) - ms})

\* PassesSince that leaves out a visit started exactly at the window's start.
PassesSinceStrict(visits, clock, ms) ==
    Cardinality({k \in 1..Len(visits) :
                   GetTime(visits[k].started_at) > GetTime(clock) - ms})

\* new Date(v.started_at) >= h24Ago (d7Ago), counted over blockVisits.
PassesSince(visits, clock, ms) ==
    Cardinality({k \in 1..Len(visits) :
                   GetTime(visits[k].started_at) >= GetTime(clock) - ms})

\* MetricsUpdate that adds the new visits to the stored total_passes.
MetricsUpdateIncremental(blockId, visits, clock, stamp) ==
    [block_id        |-> blockId,
     last_seen_at    |-> IF LastVisit(visits) # <<>>
                           THEN <<EndOrStart(LastVisit(visits)[1])>> ELSE <<>>,
     last_tractor_id |-> IF LastVisit(visits) # <<>>
                           THEN <<LastVisit(visits)[1].tractor_id>> ELSE <<>>,
     total_passes    |-> Len(visits)
                           + (IF block_metrics[blockId] = <<>> THEN 0
                              ELSE block_metrics[blockId][1].total_passes),
     passes_24h      |-> PassesSince(visits, clock, 24 * 60 * 60 * 1000),
     passes_7d       |-> PassesSince(visits, clock, 7 * 24 * 60 * 60 * 1000),
     updated_at      |-> stamp]

\* metricsUpdate for a block, its blockVisits, the clock value read into `now`
\* and the one read for updated_at.
MetricsUpdate(blockId, visits, clock, stamp) ==
    [block_id        |-> blockId,
     last_seen_at    |-> IF LastVisit(visits) # <<>>
                           THEN <<EndOrStart(LastVisit(visits)[1])>> ELSE <<>>,
     last_tractor_id |-> IF LastVisit(visits) # <<>>
                           THEN <<LastVisit(visits)[1].tractor_id>> ELSE <<>>,
     total_passes    |-> Len(visits),
     passes_24h      |-> PassesSince(visits, clock, 24 * 60 * 60 * 1000),
     passes_7d       |-> PassesSince(visits, clock, 7 * 24 * 60 * 60 * 1000),
     updated_at      |-> stamp]

ValidGeometry(blockId) == getPolygonCoordinates(blocks[blockId]) # <<>>

\* NextBlock that leaves the loop at a block of invalid geometry.
NextBlockOrStop(rb, k) ==
    IF k > Len(rb) THEN k
    ELSE IF ~ValidGeometry(rb[k]) THEN Len(rb) + 1 ELSE k

\* The loop over blocks from position k on: the position of the first block
\* whose geometry is valid (`continue` on the others), Len(rb) + 1 if none.
RECURSIVE NextBlock(_, _)
NextBlock(rb, k) ==
    IF k > Len(rb) THEN k
    ELSE IF ~ValidGeometry(rb[k]) THEN NextBlock(rb, k + 1) ELSE k

ErrorOf(blockId, what) == [block |-> blockId, what |-> what]

\* The "Invalid geometry" errors of the blocks at positions from..to.
RECURSIVE GeometryErrors(_, _, _)
GeometryErrors(rb, from, to) ==
    IF from > to \/ from > Len(rb) THEN <<>>
    ELSE (IF ValidGeometry(rb[from]) THEN <<>>
          ELSE <<ErrorOf(rb[from], "Invalid geometry")>>)
         \o GeometryErrors(rb, from + 1, to)

\* ------------------------------------------------------------------------
\* The reprocessing run (serve handler), one storage call per step
\* ------------------------------------------------------------------------

\* No metrics computation of its own is running.
MetOff ==
    /\ metVisits = <<>>
    /\ metClock = <<>>
    /\ metRow = <<>>

ImportIds == {1, 2}

\* The locals of an import request that has not arrived.
ImportIdle ==
    [pc |-> "idle", tractor_id |-> "", pings |-> <<>>, validPings |-> <<>>,
     newPings |-> <<>>, i |-> 0, latestPing |-> <<>>,
     stats |-> [total |-> 0, inserted |-> 0, duplicates |-> 0, errors |-> 0,
                errorDetails |-> <<>>],
     response |-> <<>>]

ImpOff ==
    /\ imports = [n \in ImportIds |-> ImportIdle]
    /\ tractors = [t \in Tractors |-> <<>>]

SegOff ==
    /\ segPings = <<>>
    /\ segPc = "off"
    /\ segIdx = 1
    /\ segState = SegmentInit
    /\ segRaw = <<>>
    /\ mrgState = MergeInit
    /\ segVisits = <<>>

RunIdle ==
    /\ pc = "idle"
    /\ req = [block_id |-> <<>>, tractor_id |-> <<>>]
    /\ rblocks = <<>>
    /\ pingOrder = <<>>
    /\ allPings = <<>>
    /\ offset = 0
    /\ bi = 0
    /\ batchAt = 0
    /\ results = NoResults
    /\ response = <<>>

\* No containment question is being asked.
GeoOff ==
    /\ geoPoint = <<>>
    /\ geoShape = <<>>
    /\ geoAnswers = <<>>

\* No coverage is being computed.
CovOff ==
    /\ covIn = <<>>
    /\ covStats = <<>>

\* The live loop is not running.
LiveOff ==
    /\ liveBlocks = <<>>
    /\ livePath = <<>>
    /\ liveTick = 0
    /\ liveLast = <<>>
    /\ liveVisits = {}

\* No concurrent requests are running.
ConOff ==
    /\ conRuns = <<>>
    /\ conVisits = EmptyBag
    /\ conMetrics = <<>>

\* No paginated read of its own is running.
PageOff ==
    /\ pageRows = {}
    /\ pagePc = "off"
    /\ pageAll = <<>>
    /\ pageOffset = 0
    /\ pageByTractor = <<>>

AuxOff ==
    /\ GeoOff
    /\ CovOff
    /\ LiveOff
    /\ ConOff
    /\ PageOff

HistInit ==
    /\ runs = 0
    /\ nfaults = 0
    /\ faults = {}
    /\ runBefore = EmptyBag
    /\ unitBefore = EmptyBag
    /\ prevRun = <<>>
    /\ interrupted = <<>>

\* Nothing of the two edge functions is running on empty tables.
CoreOff ==
    /\ SegOff
    /\ gps_pings = {}
    /\ blocks = [b \in BlockIds |-> PolygonOf(RingA)]
    /\ block_visits = EmptyBag
    /\ block_metrics = [b \in BlockIds |-> <<>>]
    /\ now = 1470
    /\ RunIdle
    /\ HistInit
    /\ MetOff
    /\ ImpOff

Init ==
    /\ SegOff
    /\ \E r1 \in Routes("t1"), r2 \in Routes("t2") :
          gps_pings = RoutePings("t1", r1) \cup RoutePings("t2", r2)
    /\ \E g \in {FeatureOf(RingB), PointGeometry, PolygonOf(RingTwo)} :
          blocks = [b \in BlockIds |->
                       IF b = "b1" THEN PolygonOf(RingA) ELSE g]
    /\ block_visits = EmptyBag
    /\ block_metrics = [b \in BlockIds |-> <<>>]
    /\ now = 1470
    /\ RunIdle
    /\ HistInit
    /\ MetOff
    /\ ImpOff
    /\ AuxOff

\* The locals a response or a kill drops.
DropLocals ==
    /\ pingOrder' = <<>>
    /\ allPings' = <<>>
    /\ offset' = 0
    /\ batchAt' = 0

Respond(status, body) ==
    /\ pc' = "responded"
    /\ response' = <<[status |-> status, body |-> body]>>

\* The request arrives; tenant_id is given.
Invoke(r) ==
    /\ pc \in {"idle", "responded"}
    /\ runs < MaxRuns
    /\ pc' = "readBlocks"
    /\ req' = r
    /\ rblocks' = <<>>
    /\ bi' = 0
    /\ results' = NoResults
    /\ response' = <<>>
    /\ DropLocals
    /\ runs' = runs + 1
    /\ faults' = {}
    /\ runBefore' = block_visits
    /\ unitBefore' = block_visits
    /\ prevRun' = IF pc = "responded"
                    THEN <<[req |-> req,
                            clean |-> faults = {} /\ response[1].status = 200,
                            visits |-> block_visits]>>
                    ELSE <<>>
    /\ interrupted' = IF interrupted # <<>> /\ interrupted[1].req = r
                        THEN interrupted ELSE <<>>
    /\ UNCHANGED <<restVars, segVars, dbVars, nfaults>>

\* Thrown errors end in the catch: status 500.
Throw(what) ==
    /\ Respond(500, [error |-> what])
    /\ DropLocals
    /\ nfaults' = nfaults + 1
    /\ UNCHANGED <<restVars, segVars, dbVars, req, rblocks, bi, results, runs,
                   runBefore, unitBefore, prevRun, interrupted>>

\* Enter the loop over blocks at position k with results res: up to the delete
\* of the first block of valid geometry, or to the final response.
EnterBlock(rb, k, res) ==
    LET n == NextBlock(rb, k)
        res2 == [res EXCEPT !.errors = @ \o GeometryErrors(rb, k, n - 1)]
    IN /\ bi' = n
       /\ results' = res2
       /\ batchAt' = 0
       /\ unitBefore' = block_visits
       /\ IF n > Len(rb)
            THEN /\ Respond(200, [success |-> TRUE,
                                  visitsCreated |-> res2.visitsCreated,
                                  metricsUpdated |-> res2.metricsUpdated,
                                  errors |-> res2.errors])
                 /\ pingOrder' = <<>>
                 /\ offset' = 0
            ELSE /\ pc' = "delete"
                 /\ response' = response
                 /\ UNCHANGED <<restVars, pingOrder, offset>>

\* allPings.length === 0 that never holds.
NoPingsNever(all) == FALSE

\* allPings.length === 0
NoPingsFound(all) == Len(all) = 0

\* await blocksQuery
ReadBlocks ==
    /\ pc = "readBlocks"
    /\ \E ok \in BOOLEAN :
        /\ ok \/ nfaults < MaxFaults
        /\ IF ~ok
             THEN /\ Throw("Error fetching blocks")
                  /\ faults' = faults \cup {[block |-> "", op |-> "blocks"]}
           ELSE IF BlocksQuery(req) = {}
             THEN /\ Respond(200, [message |-> "No blocks found",
                                   processed |-> 0])
                  /\ DropLocals
                  /\ UNCHANGED <<restVars, segVars, dbVars, req, rblocks, bi, results,
                                 histVars>>
           ELSE /\ \E rb \in SeqsOf(BlocksQuery(req)) : rblocks' = rb
                /\ pc' = "readPings"
                /\ \E rows \in OrderedByTs(PingsQuery(req)) : pingOrder' = rows
                /\ UNCHANGED <<restVars, segVars, dbVars, req, allPings, offset, bi,
                               batchAt, results, response, histVars>>

\* await pingsQuery.range(offset, offset + pageSize - 1), then the code up to
\* the next await.  The rows of equal ts of the tables of Init all lie in the
\* first page, so every page query cuts the same order, the one ReadBlocks
\* chose; SpecPage reads scopes where they do not.
ReadPingsPage ==
    /\ pc = "readPings"
    /\ \E ok \in BOOLEAN :
        /\ ok \/ nfaults < MaxFaults
        /\ IF ~ok
             THEN /\ Throw("Error fetching pings")
                  /\ faults' = faults \cup {[block |-> "", op |-> "pings"]}
           ELSE LET pings == PageOf(pingOrder, offset)
                    hasMore == Len(pings) # 0 /\ Len(pings) = PageSize
                    all == allPings \o pings
                IN IF hasMore
                     THEN /\ allPings' = all
                          /\ offset' = offset + PageSize
                          /\ UNCHANGED <<restVars, segVars, dbVars, pc, req, rblocks,
                                         pingOrder, bi, batchAt, results,
                                         response, histVars>>
                   ELSE IF NoPingsFound(all)
                     THEN /\ Respond(200, [message |-> "No GPS pings found",
                                           processed |-> 0])
                          /\ DropLocals
                          /\ UNCHANGED <<restVars, segVars, dbVars, req, rblocks, bi,
                                         results, histVars>>
                   ELSE /\ allPings' = IF NextBlock(rblocks, 1) > Len(rblocks)
                                         THEN <<>> ELSE all
                        /\ EnterBlock(rblocks, 1, results)
                        /\ UNCHANGED <<restVars, segVars, dbVars, req, rblocks, runs,
                                       nfaults, faults, runBefore, prevRun,
                                       interrupted>>

CurBlock == rblocks[bi]

CurBlockVisits ==
    BlockVisitsOf(allPings, getPolygonCoordinates(blocks[CurBlock])[1])

Fail(ok, op) ==
    /\ nfaults' = IF ok THEN nfaults ELSE nfaults + 1
    /\ faults' = IF ok THEN faults
                 ELSE faults \cup {[block |-> CurBlock, op |-> op]}

PushError(ok, what) ==
    IF ok THEN results.errors
    ELSE Append(results.errors, ErrorOf(CurBlock, what))

\* await delete of the block's old visits
DeleteVisits ==
    /\ pc = "delete"
    /\ \E ok \in BOOLEAN :
        /\ ok \/ nfaults < MaxFaults
        /\ block_visits' = IF ok THEN DeleteRows(block_visits, CurBlock, req)
                           ELSE block_visits
        /\ results' = [results EXCEPT
                         !.errors = PushError(ok, "Error deleting old visits")]
        /\ pc' = IF Len(CurBlockVisits) > 0 THEN "insert" ELSE "upsert"
        /\ batchAt' = 0
        /\ Fail(ok, "delete")
    /\ UNCHANGED <<restVars, segVars, gps_pings, blocks, block_metrics, now, req,
                   rblocks, pingOrder, allPings, offset, bi, response, runs,
                   runBefore, unitBefore, prevRun, interrupted>>

\* await insert of one batch
InsertBatch ==
    /\ pc = "insert"
    /\ LET rows == VisitsToInsert(CurBlock, CurBlockVisits)
           batch == BatchOf(rows, batchAt)
       IN \E ok \in BOOLEAN :
            /\ ok \/ nfaults < MaxFaults
            /\ block_visits' = IF ok THEN InsertRows(block_visits, batch, 1)
                               ELSE block_visits
            /\ results' = [results EXCEPT
                  !.errors = PushError(ok, "Error inserting visits"),
                  !.visitsCreated = IF ok THEN @ + Len(batch) ELSE @]
            /\ batchAt' = batchAt + BatchSize
            /\ pc' = IF batchAt + BatchSize < Len(rows)
                       THEN "insert" ELSE "upsert"
            /\ Fail(ok, "insert")
    /\ UNCHANGED <<restVars, segVars, gps_pings, blocks, block_metrics, now, req,
                   rblocks, pingOrder, allPings, offset, bi, response, runs,
                   runBefore, unitBefore, prevRun, interrupted>>

\* The clock is read into `now` and again for updated_at, then await upsert of
\* the block's metrics, then the loop goes on to the next block.
UpsertMetrics ==
    /\ pc = "upsert"
    /\ \E clock \in {c \in ClockValues : c >= now} :
       \E stamp \in {c \in ClockValues : c >= clock} : \E ok \in BOOLEAN :
        /\ ok \/ nfaults < MaxFaults
        /\ now' = stamp
        /\ block_metrics' =
             IF ok THEN [block_metrics EXCEPT ![CurBlock] =
                           <<MetricsUpdate(CurBlock, CurBlockVisits, clock,
                                           stamp)>>]
             ELSE block_metrics
        /\ EnterBlock(rblocks, bi + 1,
             [results EXCEPT
                !.errors = PushError(ok, "Error updating metrics"),
                !.metricsUpdated = IF ok THEN @ + 1 ELSE @])
        /\ allPings' = IF NextBlock(rblocks, bi + 1) > Len(rblocks)
                         THEN <<>> ELSE allPings
        /\ Fail(ok, "upsert")
    /\ UNCHANGED <<restVars, segVars, gps_pings, blocks, block_visits, req, rblocks,
                   runs, runBefore, prevRun, interrupted>>

\* The function instance is killed while it awaits a storage call of a block's
\* unit of work.
Kill ==
    /\ pc \in {"delete", "insert", "upsert"}
    /\ nfaults < MaxFaults
    /\ nfaults' = nfaults + 1
    /\ pc' = "idle"
    /\ rblocks' = <<>>
    /\ bi' = 0
    /\ results' = NoResults
    /\ response' = <<>>
    /\ DropLocals
    /\ interrupted' =
         IF interrupted # <<>> THEN interrupted
         ELSE <<[req |-> req, before |-> runBefore,
                 at |-> pc, batchAt |-> batchAt]>>
    /\ UNCHANGED <<restVars, segVars, dbVars, req, runs, faults, runBefore, unitBefore,
                   prevRun>>

Next ==
    \/ \E r \in Requests : Invoke(r)
    \/ ReadBlocks
    \/ ReadPingsPage
    \/ DeleteVisits
    \/ InsertBatch
    \/ UpsertMetrics
    \/ Kill

Spec == Init /\ [][Next]_vars

\* ------------------------------------------------------------------------
\* Segmenter and merger, one loop iteration per step
\* ------------------------------------------------------------------------

SegTractor == "t1"

SegPolygon == RingA

SegInit ==
    /\ segPings \in Streams(SegTractor, {PointInA, PointEdgeA, PointOut})
    /\ segPc = "segment"
    /\ segIdx = 1
    /\ segState = SegmentInit
    /\ segRaw = <<>>
    /\ mrgState = MergeInit
    /\ segVisits = <<>>
    /\ gps_pings = {}
    /\ blocks = [b \in BlockIds |-> PolygonOf(RingA)]
    /\ block_visits = EmptyBag
    /\ block_metrics = [b \in BlockIds |-> <<>>]
    /\ now = 1470
    /\ RunIdle
    /\ HistInit
    /\ MetOff
    /\ ImpOff
    /\ AuxOff

SegStep ==
    /\ segPc = "segment"
    /\ segIdx <= Len(segPings)
    /\ segState' = SegmentPing(segState, segPings[segIdx], SegPolygon)
    /\ segIdx' = segIdx + 1
    /\ UNCHANGED <<restVars, segPings, segPc, segRaw, mrgState, segVisits, dbVars,
                   runVars, histVars>>

SegFinish ==
    /\ segPc = "segment"
    /\ segIdx > Len(segPings)
    /\ segRaw' = SegmentEnd(segState)
    /\ segPc' = "merge"
    /\ segIdx' = 1
    /\ UNCHANGED <<restVars, segPings, segState, mrgState, segVisits, dbVars, runVars,
                   histVars>>

MergeStep ==
    /\ segPc = "merge"
    /\ segIdx <= Len(segRaw)
    /\ mrgState' = MergeVisit(mrgState, segRaw[segIdx], SegTractor)
    /\ segIdx' = segIdx + 1
    /\ UNCHANGED <<restVars, segPings, segPc, segState, segRaw, segVisits, dbVars,
                   runVars, histVars>>

MergeFinish ==
    /\ segPc = "merge"
    /\ segIdx > Len(segRaw)
    /\ segVisits' = MergeEnd(mrgState, SegTractor)
    /\ segPc' = "done"
    /\ UNCHANGED <<restVars, segPings, segIdx, segState, segRaw, mrgState, dbVars,
                   runVars, histVars>>

SegNext == SegStep \/ SegFinish \/ MergeStep \/ MergeFinish

SpecSeg == SegInit /\ [][SegNext]_vars

\* ------------------------------------------------------------------------
\* Claims on the segmenter and the merger (SpecSeg)
\* ------------------------------------------------------------------------

SegInside(k) ==
    isPointInPolygon(<<segPings[k].lon, segPings[k].lat>>, SegPolygon)

\* First pings of the maximal runs of consecutive inside pings.
RunStarts ==
    {k \in 1..Len(segPings) : SegInside(k) /\ (k = 1 \/ ~SegInside(k - 1))}

\* Last ping of the maximal run that starts at k.
RunEnd(k) ==
    CHOOSE m \in k..Len(segPings) :
        /\ \A q \in k..m : SegInside(q)
        /\ m = Len(segPings) \/ ~SegInside(m + 1)

NthRunStart(n) ==
    CHOOSE k \in RunStarts : Cardinality({q \in RunStarts : q <= k}) = n

\* C1: the raw intervals are exactly the maximal runs of consecutive inside
\* pings, in order: started_at is the run's first timestamp, ended_at its last
\* inside ping's timestamp, ping_count its length.
C1_RawIntervalsAreMaximalRuns ==
    segPc # "segment" =>
        /\ Len(segRaw) = Cardinality(RunStarts)
        /\ \A n \in 1..Len(segRaw) :
              segRaw[n] =
                [started_at |-> segPings[NthRunStart(n)].ts,
                 ended_at   |-> segPings[RunEnd(NthRunStart(n))].ts,
                 ping_count |-> RunEnd(NthRunStart(n)) - NthRunStart(n) + 1]

\* A stream with a single-ping run kept as a zero-duration interval, a longer
\* run, and the stream ending inside.
C1_Witness ==
    /\ segPc = "done"
    /\ Len(segRaw) >= 2
    /\ \E n \in 1..Len(segRaw) :
          segRaw[n].ping_count = 1 /\ segRaw[n].started_at = segRaw[n].ended_at
    /\ \E n \in 1..Len(segRaw) : segRaw[n].ping_count >= 2
    /\ SegInside(Len(segPings))

\* Gap in minutes between raw interval n and the next one.
RawGap(n) == segRaw[n + 1].started_at - segRaw[n].ended_at

\* The visits built so far by step 2: the pushed ones and the running one.
VisitsSoFar ==
    IF segPc = "done" THEN segVisits
    ELSE mrgState.pushed \o mrgState.currentMergedVisit

\* Raw intervals n and n + 1 ended in the same visit.
Joined(n) ==
    \E i \in 1..Len(VisitsSoFar) :
        /\ VisitsSoFar[i].started_at <= segRaw[n].started_at
        /\ segRaw[n + 1].ended_at <= VisitsSoFar[i].ended_at

\* Number of raw intervals step 2 has consumed.
RawConsumed ==
    IF segPc = "done" THEN Len(segRaw)
    ELSE IF segPc = "merge" THEN segIdx - 1 ELSE 0

\* C2: a raw interval is merged into the running visit iff its gap to the
\* running visit's end is strictly below MERGE_GAP_MINUTES; a gap equal to it
\* does not merge.
C2_MergedIffGapStrictlyBelow ==
    \A n \in 1..(RawConsumed - 1) :
        Joined(n) <=> RawGap(n) < MERGE_GAP_MINUTES

\* A gap of exactly 30 minutes left unmerged and a shorter gap merged.
C2_Witness ==
    /\ segPc = "done"
    /\ \E n \in 1..(Len(segRaw) - 1) :
          RawGap(n) = MERGE_GAP_MINUTES /\ ~Joined(n)
    /\ \E n \in 1..(Len(segRaw) - 1) :
          RawGap(n) < MERGE_GAP_MINUTES /\ Joined(n)

\* C3: the number of visits is 1 + the number of adjacent raw intervals whose
\* gap is at least MERGE_GAP_MINUTES (0 for no raw interval), and consecutive
\* visits are at least MERGE_GAP_MINUTES apart.
C3_MinimalVisitCount ==
    segPc = "done" =>
        /\ Len(segVisits) =
             IF Len(segRaw) = 0 THEN 0
             ELSE 1 + Cardinality({n \in 1..(Len(segRaw) - 1) :
                                     RawGap(n) >= MERGE_GAP_MINUTES})
        /\ \A i \in 1..(Len(segVisits) - 1) :
              segVisits[i + 1].started_at - segVisits[i].ended_at
                  >= MERGE_GAP_MINUTES

\* Three raw intervals merged into two visits.
C3_Witness ==
    /\ segPc = "done"
    /\ Len(segRaw) = 3
    /\ Len(segVisits) = 2

RECURSIVE SumPingCount(_, _, _)
SumPingCount(seq, i, j) ==
    IF i > j THEN 0 ELSE seq[i].ping_count + SumPingCount(seq, i + 1, j)

\* Visit v is the merge of the raw intervals i..j.
MergeOf(v, i, j) ==
    /\ v.started_at = segRaw[i].started_at
    /\ v.ended_at = segRaw[j].ended_at
    /\ v.ping_count = SumPingCount(segRaw, i, j)
    /\ v.tractor_id = SegTractor

\* C5: every visit spans from the start of its first raw interval to the end
\* of its last one with the sum of their ping counts, and the visits' ping
\* counts add up to the number of pings classified inside.
C5_MergedSpanAndPingSum ==
    segPc = "done" =>
        /\ \A k \in 1..Len(segVisits) :
              \E i \in 1..Len(segRaw) : \E j \in i..Len(segRaw) :
                  MergeOf(segVisits[k], i, j)
        /\ SumPingCount(segVisits, 1, Len(segVisits)) =
              Cardinality({k \in 1..Len(segPings) : SegInside(k)})

\* A visit merged from two raw intervals with a gap between them.
C5_Witness ==
    /\ segPc = "done"
    /\ \E k \in 1..Len(segVisits) : \E i \in 1..(Len(segRaw) - 1) :
          /\ MergeOf(segVisits[k], i, i + 1)
          /\ RawGap(i) > 0

\* ------------------------------------------------------------------------
\* Metrics of one block: the clock is read, then metricsUpdate is built
\* ------------------------------------------------------------------------

\* Timestamps of the pings inside the block the block's visits come from.
MetTimes == {29, 30, 31, 75}

\* Timestamp of the ping each tractor sends from outside the block.
MetTimeOut == 45

MetBlock == "b1"

MetInit ==
    /\ \E s1 \in SUBSET MetTimes, s2 \in SUBSET MetTimes :
          \E all \in OrderedByTs({Ping("t1", t, PointInA) : t \in s1}
                                 \cup {Ping("t2", t, PointInA) : t \in s2}
                                 \cup {Ping(t, MetTimeOut, PointOut) :
                                          t \in Tractors}) :
              metVisits = BlockVisitsOf(all, RingA)
    /\ metClock = <<>>
    /\ metRow = <<>>
    /\ SegOff
    /\ gps_pings = {}
    /\ blocks = [b \in BlockIds |-> PolygonOf(RingA)]
    /\ block_visits = EmptyBag
    /\ block_metrics = [b \in BlockIds |-> <<>>]
    /\ now = 1470
    /\ RunIdle
    /\ HistInit
    /\ ImpOff
    /\ AuxOff

\* const now = new Date()
MetReadClock ==
    /\ metClock = <<>>
    /\ \E clock \in ClockValues : metClock' = <<clock>>
    /\ UNCHANGED <<metVisits, metRow, segVars, dbVars, runVars, histVars,
                   impVars, auxVars>>

\* lastVisit, passes24h, passes7d and metricsUpdate
MetCompute ==
    /\ metClock # <<>>
    /\ metRow = <<>>
    /\ \E stamp \in {c \in ClockValues : c >= metClock[1]} :
          metRow' = <<MetricsUpdate(MetBlock, metVisits, metClock[1], stamp)>>
    /\ UNCHANGED <<metVisits, metClock, segVars, dbVars, runVars, histVars,
                   impVars, auxVars>>

MetNext == MetReadClock \/ MetCompute

SpecMet == MetInit /\ [][MetNext]_vars

\* Position of the first visit of metVisits with the latest end.
FirstLatest ==
    CHOOSE k \in 1..Len(metVisits) :
        /\ \A j \in 1..Len(metVisits) :
              metVisits[j].ended_at <= metVisits[k].ended_at
        /\ \A j \in 1..(k - 1) :
              metVisits[j].ended_at < metVisits[k].ended_at

\* C15: last_seen_at is the latest end over the block's visits and
\* last_tractor_id the tractor of the first visit, in processing order, that
\* has it; both are null for a block without visits.
C15_LastVisitIsFirstLatest ==
    metRow # <<>> =>
        IF metVisits = <<>>
          THEN metRow[1].last_seen_at = <<>> /\ metRow[1].last_tractor_id = <<>>
          ELSE /\ metRow[1].last_seen_at = <<metVisits[FirstLatest].ended_at>>
               /\ metRow[1].last_tractor_id
                    = <<metVisits[FirstLatest].tractor_id>>

\* Visits of two tractors end at the latest time, the first of them after an
\* earlier visit.
C15_Witness ==
    /\ metRow # <<>>
    /\ Len(metVisits) >= 3
    /\ FirstLatest > 1
    /\ \E j \in (FirstLatest + 1)..Len(metVisits) :
          /\ metVisits[j].ended_at = metVisits[FirstLatest].ended_at
          /\ metVisits[j].tractor_id # metVisits[FirstLatest].tractor_id

\* C17: passes_24h counts exactly the visits started at most 24 hours before
\* the clock value read for the block, passes_7d those started at most 7 days
\* before it; a visit started exactly 24 hours (7 days) before is counted.
C17_WindowBoundaries ==
    metRow # <<>> =>
        /\ metRow[1].passes_24h =
              Cardinality({k \in 1..Len(metVisits) :
                  metClock[1] - metVisits[k].started_at <= 24 * 60})
        /\ metRow[1].passes_7d =
              Cardinality({k \in 1..Len(metVisits) :
                  metClock[1] - metVisits[k].started_at <= 7 * 24 * 60})

\* One visit started exactly 24 hours before the clock and is counted, one
\* started 24 hours and a minute before it and is not.
C17_Witness ==
    /\ metRow # <<>>
    /\ \E k \in 1..Len(metVisits) :
          metClock[1] - metVisits[k].started_at = 24 * 60
    /\ \E k \in 1..Len(metVisits) :
          metClock[1] - metVisits[k].started_at = 24 * 60 + 1
    /\ metRow[1].passes_24h = Len(metVisits) - 1
    /\ metRow[1].passes_24h > 0

\* ------------------------------------------------------------------------
\* import-gps-data: two requests, one storage call per step
\* ------------------------------------------------------------------------

\* A timestamp of a request body is a text: the instant it names (minutes) and
\* the form it is written in.  new Date(ts).toISOString() keeps the instant
\* and drops the form.
toISOString(ts) == ts.at

\* Pings a request body may hold: the same instant in two forms and at two
\* positions, an earlier instant, and the four pings validatePing refuses: a
\* latitude and a longitude out of range, a text that is no timestamp, and an
\* instant 61 minutes ahead of the clock.
ImportPings ==
    { [ts |-> [at |-> 30, form |-> "utc"], lon |-> 1, lat |-> 1],
      [ts |-> [at |-> 30, form |-> "offset"], lon |-> 3, lat |-> 1],
      [ts |-> [at |-> 0, form |-> "utc"], lon |-> 1, lat |-> 1],
      [ts |-> [at |-> 30, form |-> "utc"], lon |-> 1, lat |-> 91],
      [ts |-> [at |-> 30, form |-> "utc"], lon |-> 181, lat |-> 1],
      [ts |-> [at |-> 0, form |-> "invalid"], lon |-> 1, lat |-> 1],
      [ts |-> [at |-> 1531, form |-> "utc"], lon |-> 1, lat |-> 1] }

RECURSIVE BodiesOfLen(_)
BodiesOfLen(n) ==
    IF n = 0 THEN {<<>>}
    ELSE {Append(b, p) : b \in BodiesOfLen(n - 1), p \in ImportPings}

ImportBodies == UNION {BodiesOfLen(n) : n \in 0..MaxImport}

\* A tractor id of no tractor of the tenant.
UnknownTractor == "t0"

\* validatePing without the test of a timestamp ahead of the clock.
validatePingNoFuture(ping, clock) ==
    IF ping.lat < -90 \/ ping.lat > 90 THEN <<"Latitud invalida">>
    ELSE IF ping.lon < -180 \/ ping.lon > 180 THEN <<"Longitud invalida">>
    ELSE IF ping.ts.form = "invalid" THEN <<"Timestamp invalido">>
    ELSE <<>>

\* validatePing: null, or the reason the ping is refused for.
validatePing(ping, clock) ==
    IF ping.lat < -90 \/ ping.lat > 90 THEN <<"Latitud invalida">>
    ELSE IF ping.lon < -180 \/ ping.lon > 180 THEN <<"Longitud invalida">>
    ELSE IF ping.ts.form = "invalid" THEN <<"Timestamp invalido">>
    ELSE IF ping.ts.at > clock + FutureToleranceMinutes
      THEN <<"Timestamp futuro">>
    ELSE <<>>

\* The validation loop from position k on: validPings and the error details.
RECURSIVE ValidateFrom(_, _, _, _)
ValidateFrom(pings, k, clock, acc) ==
    IF k > Len(pings) THEN acc
    ELSE LET why == validatePing(pings[k], clock)
         IN ValidateFrom(pings, k + 1, clock,
              IF why = <<>>
                THEN [acc EXCEPT !.validPings =
                        Append(@, [ts |-> toISOString(pings[k].ts),
                                   lat |-> pings[k].lat,
                                   lon |-> pings[k].lon])]
                ELSE [acc EXCEPT
                        !.errors = @ + 1,
                        !.errorDetails =
                            IF Len(@) < 50
                              THEN Append(@, [row |-> k, reason |-> why[1]])
                              ELSE @])

\* The timestamps of the tractor's stored pings among `timestamps`.
ExistingTimestamps(tractor, timestamps) ==
    {p.ts : p \in {q \in gps_pings :
                     q.tractor_id = tractor /\ q.ts \in timestamps}}

\* validPings.filter(p => !existingTimestamps.has(p.ts))
FilterNew(validPings, existing) ==
    SelectSeq(validPings, LAMBDA p : p.ts \notin existing)

\* A row of gps_pings the import inserts; the id is a fresh value.
ImportRow(n, k, tractor, ping) ==
    [id |-> <<n, k>>, tractor_id |-> tractor, ts |-> ping.ts,
     lon |-> ping.lon, lat |-> ping.lat]

\* latestPing after the loop over a batch that was inserted.
RECURSIVE LatestPing(_, _, _)
LatestPing(latest, batch, k) ==
    IF k > Len(batch) THEN latest
    ELSE LatestPing(IF latest = <<>> \/ batch[k].ts > latest[1].ts
                      THEN <<batch[k]>> ELSE latest,
                    batch, k + 1)

ImpInit ==
    /\ ImpOff
    /\ MetOff
    /\ SegOff
    /\ gps_pings = {}
    /\ blocks = [b \in BlockIds |-> PolygonOf(RingA)]
    /\ block_visits = EmptyBag
    /\ block_metrics = [b \in BlockIds |-> <<>>]
    /\ now = 1470
    /\ RunIdle
    /\ HistInit
    /\ AuxOff

ImpRest == <<segVars, blocks, block_visits, block_metrics, now, runVars,
             histVars, metVars, auxVars>>

\* The request arrives: the tractor is looked up, stats are set up and the
\* pings are validated.
ImpReceive(n) ==
    /\ imports[n].pc = "idle"
    /\ \E tractor \in {"t1", UnknownTractor}, body \in ImportBodies :
          imports' = [imports EXCEPT ![n] =
            IF tractor \notin DOMAIN tractors
              THEN [@ EXCEPT !.pc = "done",
                             !.tractor_id = tractor,
                             !.pings = body,
                             !.response = <<[status |-> 404]>>]
              ELSE LET v == ValidateFrom(body, 1, now,
                              [validPings |-> <<>>, errors |-> 0,
                               errorDetails |-> <<>>])
                   IN [@ EXCEPT !.pc = "check",
                                !.tractor_id = tractor,
                                !.pings = body,
                                !.validPings = v.validPings,
                                !.stats = [total |-> Len(body),
                                           inserted |-> 0,
                                           duplicates |-> 0,
                                           errors |-> v.errors,
                                           errorDetails |-> v.errorDetails]]]
    /\ UNCHANGED <<gps_pings, tractors, ImpRest>>

\* await the select of existing timestamps (its error is not looked at: a
\* failed select gives no existing timestamp), then the duplicates filter.
ImpCheck(n) ==
    /\ imports[n].pc = "check"
    /\ \E ok \in BOOLEAN :
        LET me == imports[n]
            timestamps == {me.validPings[k].ts : k \in 1..Len(me.validPings)}
            existing == IF ok THEN ExistingTimestamps(me.tractor_id, timestamps)
                        ELSE {}
            new == FilterNew(me.validPings, existing)
        IN imports' = [imports EXCEPT ![n] =
             [@ EXCEPT !.pc = IF Len(new) > 0 THEN "insert" ELSE "finish",
                       !.newPings = new,
                       !.i = 0,
                       !.stats.duplicates = Len(me.validPings) - Len(new)]]
    /\ UNCHANGED <<gps_pings, tractors, ImpRest>>

\* await the insert of one batch
ImpInsert(n) ==
    /\ imports[n].pc = "insert"
    /\ \E ok \in BOOLEAN :
        LET me == imports[n]
            last == IF me.i + ImportBatchSize < Len(me.newPings)
                      THEN me.i + ImportBatchSize ELSE Len(me.newPings)
            batch == SubSeq(me.newPings, me.i + 1, last)
        IN /\ gps_pings' =
                IF ok
                  THEN gps_pings \cup
                       {ImportRow(n, k, me.tractor_id, me.newPings[k]) :
                          k \in (me.i + 1)..last}
                  ELSE gps_pings
           /\ imports' = [imports EXCEPT ![n] =
                [@ EXCEPT
                   !.pc = IF me.i + ImportBatchSize < Len(me.newPings)
                            THEN "insert" ELSE "finish",
                   !.i = me.i + ImportBatchSize,
                   !.latestPing = IF ok THEN LatestPing(@, batch, 1) ELSE @,
                   !.stats.inserted = IF ok THEN @ + Len(batch) ELSE @,
                   !.stats.errors = IF ok THEN @ ELSE @ + Len(batch),
                   !.stats.errorDetails =
                       IF ok THEN @
                       ELSE Append(@, [row |-> me.i,
                                       reason |-> "Error de insercion"])]]
    /\ UNCHANGED <<tractors, ImpRest>>

\* await the update of the tractor's last position, then the response
ImpFinish(n) ==
    /\ imports[n].pc = "finish"
    /\ tractors' =
         IF imports[n].latestPing # <<>>
           THEN [tractors EXCEPT ![imports[n].tractor_id] =
                   <<[last_lat |-> imports[n].latestPing[1].lat,
                      last_lon |-> imports[n].latestPing[1].lon,
                      last_seen_at |-> imports[n].latestPing[1].ts]>>]
           ELSE tractors
    /\ imports' = [imports EXCEPT ![n] =
         [@ EXCEPT !.pc = "done",
                   !.response = <<[status |-> 200, success |-> TRUE,
                                   stats |-> imports[n].stats]>>]]
    /\ UNCHANGED <<gps_pings, ImpRest>>

ImpNext ==
    \E n \in ImportIds :
        ImpReceive(n) \/ ImpCheck(n) \/ ImpInsert(n) \/ ImpFinish(n)

SpecImp == ImpInit /\ [][ImpNext]_vars

\* C20: no two stored pings of one tractor share a timestamp.
C20_NoTwoPingsShareTimestamp ==
    \A p \in gps_pings : \A q \in gps_pings :
        (p.tractor_id = q.tractor_id /\ p.ts = q.ts) => p = q

\* ------------------------------------------------------------------------
\* Claims on the reprocessing run (Spec)
\* ------------------------------------------------------------------------

\* The run ended with the {success, visitsCreated, metricsUpdated, errors}
\* response.
RunCompleted ==
    /\ pc = "responded"
    /\ response[1].status = 200
    /\ "success" \in DOMAIN response[1].body

\* The run ended with a 200 response and no storage call of it failed.
RunClean ==
    /\ pc = "responded"
    /\ response[1].status = 200
    /\ faults = {}

\* Row belongs to the (block[, tractor]) scope of request r.
InScope(row, blockId, r) ==
    /\ row.block_id = blockId
    /\ r.tractor_id = <<>> \/ r.tractor_id = <<row.tractor_id>>

\* The rows of a table in a scope, as a bag.
ScopeOf(table, blockId, r) ==
    [row \in {x \in DOMAIN table : InScope(x, blockId, r)} |-> table[row]]

BlockRows(table, blockId) ==
    [row \in {x \in DOMAIN table : x.block_id = blockId} |-> table[row]]

\* The ping stream of one tractor, ascending in ts.
StreamOfTractor(tractor) ==
    CHOOSE q \in OrderedByTs({p \in gps_pings : p.tractor_id = tractor}) : TRUE

SeqRange(q) == {q[k] : k \in 1..Len(q)}

\* The rows segmenting and merging the stored pings gives for a scope.
ExpectedRows(blockId, r) ==
    UNION {{VisitRow(blockId, v) :
              v \in SeqRange(MergedVisits(
                       RawVisits(StreamOfTractor(t),
                                 getPolygonCoordinates(blocks[blockId])[1]),
                       t))} :
           t \in {u \in Tractors : r.tractor_id = <<>> \/ r.tractor_id = <<u>>}}

\* The blocks a run of request r replaces the visits of.
ProcessedBlocks(r) ==
    IF PingsQuery(r) = {} THEN {}
    ELSE {b \in BlocksQuery(r) : ValidGeometry(b)}

\* block_visits after a run of request r on table `before` in which no storage
\* call fails.
CleanRunVisits(before, r) ==
    [row \in {x \in DOMAIN before :
                \A b \in ProcessedBlocks(r) : ~InScope(x, b, r)} |->
        before[row]]
    (+) SetToBag(UNION {ExpectedRows(b, r) : b \in ProcessedBlocks(r)})

MaxOf(S) == CHOOSE x \in S : \A y \in S : y <= x

\* The stored metrics of a block are those of the rows segmenting and merging
\* the scope's pings gives, the windows counted at a clock value not later
\* than the row's updated_at.
MetricsAsComputed(blockId, r) ==
    /\ block_metrics[blockId] # <<>>
    /\ LET m == block_metrics[blockId][1]
           rows == ExpectedRows(blockId, r)
           latest == MaxOf({v.ended_at : v \in rows})
       IN /\ m.block_id = blockId
          /\ m.total_passes = Cardinality(rows)
          /\ \E clock \in {c \in ClockValues : c <= m.updated_at} :
                /\ m.passes_24h =
                      Cardinality({v \in rows :
                                     v.started_at >= clock - 24 * 60})
                /\ m.passes_7d =
                      Cardinality({v \in rows :
                                     v.started_at >= clock - 7 * 24 * 60})
          /\ IF rows = {}
               THEN m.last_seen_at = <<>> /\ m.last_tractor_id = <<>>
               ELSE /\ m.last_seen_at = <<latest>>
                    /\ \E v \in rows :
                          /\ v.ended_at = latest
                          /\ m.last_tractor_id = <<v.tractor_id>>

\* C4: after a run, the stored visits of every (block, tractor) pair are
\* pairwise disjoint and time-ordered: started_at <= ended_at, and of two
\* visits one ends before the other starts.
C4_StoredVisitsDisjoint ==
    pc = "responded" =>
        \A v \in DOMAIN block_visits :
            /\ v.started_at <= v.ended_at
            /\ block_visits[v] = 1
            /\ \A w \in DOMAIN block_visits \ {v} :
                  (w.block_id = v.block_id /\ w.tractor_id = v.tractor_id) =>
                      (v.ended_at < w.started_at \/ w.ended_at < v.started_at)

\* C6: a run that follows a run of the same request, both without a failed
\* storage call, leaves the stored visits exactly as the first run left them.
C6_RerunLeavesSameVisits ==
    (RunClean /\ prevRun # <<>> /\ prevRun[1].clean /\ prevRun[1].req = req)
        => block_visits = prevRun[1].visits

\* Two successive runs of one request that stored three visits or more.
C6_Witness ==
    /\ RunClean
    /\ prevRun # <<>>
    /\ prevRun[1].clean
    /\ prevRun[1].req = req
    /\ RunCompleted
    /\ response[1].body.visitsCreated >= 3
    /\ BagCardinality(block_visits) >= 3

\* C7: after a run without a failed storage call, the metrics of every
\* processed block are those of all visits stored for the block: total_passes
\* is their number and last_seen_at the latest end among them.
C7_MetricsFromAllStoredVisits ==
    (RunCompleted /\ faults = {}) =>
        \A b \in ProcessedBlocks(req) :
            /\ block_metrics[b] # <<>>
            /\ block_metrics[b][1].total_passes =
                  BagCardinality(BlockRows(block_visits, b))
            /\ block_metrics[b][1].last_seen_at =
                  IF BlockRows(block_visits, b) = EmptyBag THEN <<>>
                  ELSE <<MaxOf({v.ended_at :
                                  v \in DOMAIN BlockRows(block_visits, b)})>>

\* C8: during a block's unit of work the scope holds either the rows stored
\* before the unit or the newly computed rows.
C8_ReplaceIsAtomic ==
    pc \in {"delete", "insert", "upsert"} =>
        \/ ScopeOf(block_visits, CurBlock, req)
             = ScopeOf(unitBefore, CurBlock, req)
        \/ ScopeOf(block_visits, CurBlock, req)
             = SetToBag(ExpectedRows(CurBlock, req))

\* C9: a run of the request of a killed run, without a failed storage call,
\* leaves the visits an unkilled run would have left from the state the
\* killed run began in, and the metrics computed from the scope's pings.
C9_RerunAfterKill ==
    (RunClean /\ interrupted # <<>>) =>
        /\ block_visits = CleanRunVisits(interrupted[1].before, req)
        /\ \A b \in ProcessedBlocks(req) : MetricsAsComputed(b, req)

\* A run killed between two insert batches, re-run to its response, with
\* visits stored before the killed run.
C9_Witness ==
    /\ RunClean
    /\ RunCompleted
    /\ interrupted # <<>>
    /\ interrupted[1].at = "insert"
    /\ interrupted[1].batchAt > 0
    /\ interrupted[1].before # EmptyBag
    /\ ProcessedBlocks(req) # {}

ErrorText(op) ==
    IF op = "delete" THEN "Error deleting old visits"
    ELSE IF op = "insert" THEN "Error inserting visits"
    ELSE "Error updating metrics"

HasError(blockId, what) ==
    \E k \in 1..Len(response[1].body.errors) :
        response[1].body.errors[k] = ErrorOf(blockId, what)

\* C10: when the run responds, every failure of a block is in errors[], and
\* every target block of valid geometry none of whose storage calls failed has
\* its visits replaced and its metrics upserted.
C10_FailuresDoNotStopOtherBlocks ==
    RunCompleted =>
        /\ \A f \in faults : HasError(f.block, ErrorText(f.op))
        /\ \A b \in BlocksQuery(req) :
              ~ValidGeometry(b) => HasError(b, "Invalid geometry")
        /\ \A b \in ProcessedBlocks(req) :
              (\A f \in faults : f.block # b) =>
                  /\ ScopeOf(block_visits, b, req)
                       = SetToBag(ExpectedRows(b, req))
                  /\ MetricsAsComputed(b, req)

\* The first block's storage call failed and the second block was processed.
C10_Witness ==
    /\ RunCompleted
    /\ Len(rblocks) = 2
    /\ \E f \in faults : f.block = rblocks[1]
    /\ rblocks[2] \in ProcessedBlocks(req)
    /\ ExpectedRows(rblocks[2], req) # {}
    /\ block_metrics[rblocks[2]] # <<>>

\* ------------------------------------------------------------------------
\* Failures, empty inputs and the response of the run (Spec)
\* ------------------------------------------------------------------------

\* C11: a run in which a storage call failed (blocks read, pings page read,
\* delete, insert or upsert) still ends with the {success, visitsCreated,
\* metricsUpdated, errors} response, never with a hard failure.
C11_StorageFailuresAreReported ==
    (pc = "responded" /\ faults # {}) =>
        /\ response[1].status = 200
        /\ DOMAIN response[1].body
             = {"success", "visitsCreated", "metricsUpdated", "errors"}
        /\ Len(response[1].body.errors) > 0

\* The run read its blocks and found no ping in the scope it targets.
FoundNoPings ==
    /\ pc = "responded"
    /\ response[1].status = 200
    /\ BlocksQuery(req) # {}
    /\ PingsQuery(req) = {}

\* The metrics of a block count no visit: no row, or a row with total_passes 0
\* and last_seen_at null.
CountsNoVisit(blockId) ==
    \/ block_metrics[blockId] = <<>>
    \/ /\ block_metrics[blockId][1].total_passes = 0
       /\ block_metrics[blockId][1].last_seen_at = <<>>

WellFormedRing(ring) ==
    /\ Len(ring) >= 4
    /\ ring[1] = ring[Len(ring)]

\* The geometry of a block is malformed or degenerate.
Degenerate(blockId) ==
    \/ getPolygonCoordinates(blocks[blockId]) = <<>>
    \/ ~WellFormedRing(getPolygonCoordinates(blocks[blockId])[1])

\* C13: a run that reaches the loop over blocks records an error for every
\* target block of malformed or degenerate geometry and stores nothing for it.
C13_GeometryErrorAbortsBlockOnly ==
    RunCompleted =>
        \A b \in BlocksQuery(req) :
            Degenerate(b) =>
                /\ HasError(b, "Invalid geometry")
                /\ block_metrics[b] = <<>>
                /\ BlockRows(block_visits, b) = EmptyBag

\* C14: every 200 response carries success, visitsCreated, metricsUpdated and
\* errors.
C14_ResponseHasContractFields ==
    (pc = "responded" /\ response[1].status = 200) =>
        {"success", "visitsCreated", "metricsUpdated", "errors"}
            \subseteq DOMAIN response[1].body

\* ------------------------------------------------------------------------
\* Metrics records, frame and order of the block units (Spec)
\* ------------------------------------------------------------------------

\* The step is a successful upsert of the metrics of CurBlock.
MetricsWritten ==
    /\ pc = "upsert"
    /\ results'.metricsUpdated = results.metricsUpdated + 1

\* C16: the metrics row a run writes for a block has total_passes equal to
\* the number of merged visits computed for the block, and
\* 0 <= passes_24h <= passes_7d <= total_passes.
C16_MetricsCountsConsistent ==
    [][MetricsWritten =>
         LET m == block_metrics'[CurBlock][1]
         IN /\ m.total_passes = Len(CurBlockVisits)
            /\ 0 <= m.passes_24h
            /\ m.passes_24h <= m.passes_7d
            /\ m.passes_7d <= m.total_passes]_vars

\* A block whose stored metrics have passes_24h < passes_7d < total_passes.
C16_Witness ==
    \E b \in BlockIds :
        /\ block_metrics[b] # <<>>
        /\ block_metrics[b][1].passes_24h < block_metrics[b][1].passes_7d
        /\ block_metrics[b][1].passes_7d < block_metrics[b][1].total_passes

\* C18: a step of a run changes only stored visits inside the
\* (block[, tractor]) scope of a target block of the request, and only the
\* metrics of a target block.
C18_FilteredRunFrame ==
    [][/\ \A x \in DOMAIN block_visits \cup DOMAIN block_visits' :
             CopiesIn(x, block_visits') # CopiesIn(x, block_visits) =>
                 /\ x.block_id \in BlocksQuery(req)
                 /\ InScope(x, x.block_id, req)
       /\ \A b \in BlockIds :
             block_metrics'[b] # block_metrics[b] => b \in BlocksQuery(req)
      ]_vars

\* A run filtered to block b1 and tractor t1 created visits while a visit of
\* t2 in b1 and a visit in b2 are stored.
C18_Witness ==
    /\ RunCompleted
    /\ req = [block_id |-> <<"b1">>, tractor_id |-> <<"t1">>]
    /\ response[1].body.visitsCreated > 0
    /\ \E x \in DOMAIN block_visits :
          x.block_id = "b1" /\ x.tractor_id = "t2"
    /\ \E x \in DOMAIN block_visits : x.block_id = "b2"
    /\ block_metrics["b2"] # <<>>

\* C19: whatever the order the blocks are processed in, a run without a
\* failed storage call leaves the stored visits a function of the visits it
\* began with, the request and the pings, and the metrics of each processed
\* block a function of the block's pings and the clock read for it.
C19_BlockOrderIrrelevant ==
    (RunClean /\ RunCompleted) =>
        /\ block_visits = CleanRunVisits(runBefore, req)
        /\ \A b \in ProcessedBlocks(req) : MetricsAsComputed(b, req)

\* A run that processed b2 before b1 and stored visits for both.
C19_Witness ==
    /\ RunClean
    /\ RunCompleted
    /\ rblocks = <<"b2", "b1">>
    /\ ProcessedBlocks(req) = {"b1", "b2"}
    /\ ExpectedRows("b1", req) # {}
    /\ ExpectedRows("b2", req) # {}
    /\ runBefore # EmptyBag

\* ------------------------------------------------------------------------
\* Containment: calls of isPointInPolygon on one point and one ring
\* ------------------------------------------------------------------------

\* calls made on one point and one ring
MaxCalls == 2

\* The points asked about: the integer points around the rings below.
GeoGrid == (-1..5) \X (-1..5)

\* An axis-aligned rectangle with corners (0, 0) and (4, 2), as a closed ring
\* listed counter-clockwise, clockwise, and counter-clockwise from the
\* opposite corner.
RectRings ==
    { << <<0, 0>>, <<4, 0>>, <<4, 2>>, <<0, 2>>, <<0, 0>> >>,
      << <<0, 0>>, <<0, 2>>, <<4, 2>>, <<4, 0>>, <<0, 0>> >>,
      << <<4, 2>>, <<0, 2>>, <<0, 0>>, <<4, 0>>, <<4, 2>> >>,
      RingA }

\* A triangle with a slanted edge.
RingTriangle == << <<0, 0>>, <<4, 0>>, <<0, 4>>, <<0, 0>> >>

\* A concave, L-shaped ring.
RingEll ==
    << <<0, 0>>, <<4, 0>>, <<4, 2>>, <<2, 2>>, <<2, 4>>, <<0, 4>>, <<0, 0>> >>

Xs(ring) == {ring[k][1] : k \in 1..Len(ring)}

Ys(ring) == {ring[k][2] : k \in 1..Len(ring)}

MinOf(S) == CHOOSE m \in S : \A n \in S : m <= n

\* A ring with the points of the grid strictly inside and strictly outside
\* the region it encloses, told from the region's shape alone.
RectShape(ring) ==
    LET x0 == MinOf(Xs(ring))
        x1 == MaxOf(Xs(ring))
        y0 == MinOf(Ys(ring))
        y1 == MaxOf(Ys(ring))
    IN [ring |-> ring,
        rect |-> TRUE,
        inside |-> {p \in GeoGrid : x0 < p[1] /\ p[1] < x1
                                    /\ y0 < p[2] /\ p[2] < y1},
        outside |-> {p \in GeoGrid : p[1] < x0 \/ p[1] > x1
                                     \/ p[2] < y0 \/ p[2] > y1}]

TriangleShape ==
    [ring |-> RingTriangle,
     rect |-> FALSE,
     inside |-> {p \in GeoGrid : p[1] > 0 /\ p[2] > 0 /\ p[1] + p[2] < 4},
     outside |-> {p \in GeoGrid : p[1] < 0 \/ p[2] < 0 \/ p[1] + p[2] > 4}]

EllShape ==
    [ring |-> RingEll,
     rect |-> FALSE,
     inside |-> {p \in GeoGrid :
                   \/ 0 < p[1] /\ p[1] < 4 /\ 0 < p[2] /\ p[2] < 2
                   \/ 0 < p[1] /\ p[1] < 2 /\ 0 < p[2] /\ p[2] < 4},
     outside |-> {p \in GeoGrid :
                   /\ ~(0 <= p[1] /\ p[1] <= 4 /\ 0 <= p[2] /\ p[2] <= 2)
                   /\ ~(0 <= p[1] /\ p[1] <= 2 /\ 0 <= p[2] /\ p[2] <= 4)}]

GeoShapes == {RectShape(ring) : ring \in RectRings}
             \cup {TriangleShape, EllShape}

GeoInit ==
    /\ geoPoint \in GeoGrid
    /\ geoShape \in GeoShapes
    /\ geoAnswers = <<>>
    /\ CoreOff
    /\ CovOff
    /\ LiveOff
    /\ ConOff
    /\ PageOff

\* One call isPointInPolygon(point, polygon).
GeoCall ==
    /\ Len(geoAnswers) < MaxCalls
    /\ geoAnswers' = Append(geoAnswers,
                            isPointInPolygon(geoPoint, geoShape.ring))
    /\ UNCHANGED <<geoPoint, geoShape, geoRest>>

GeoNext == GeoCall

SpecGeo == GeoInit /\ [][GeoNext]_vars

\* The point is on the left or the bottom edge of the rectangle and on
\* neither its right nor its top edge.
OnLeftOrBottom(p, ring) ==
    /\ MinOf(Xs(ring)) <= p[1] /\ p[1] < MaxOf(Xs(ring))
    /\ MinOf(Ys(ring)) <= p[2] /\ p[2] < MaxOf(Ys(ring))
    /\ p[1] = MinOf(Xs(ring)) \/ p[2] = MinOf(Ys(ring))

\* The point is on the right or the top edge of the rectangle.
OnRightOrTop(p, ring) ==
    /\ MinOf(Xs(ring)) <= p[1] /\ p[1] <= MaxOf(Xs(ring))
    /\ MinOf(Ys(ring)) <= p[2] /\ p[2] <= MaxOf(Ys(ring))
    /\ p[1] = MaxOf(Xs(ring)) \/ p[2] = MaxOf(Ys(ring))

\* C21: isPointInPolygon depends on the point and the ring only: repeated
\* calls return the same answer; a point strictly inside a simple closed
\* ring returns true and a point strictly outside returns false; on an
\* axis-aligned rectangle a point of the left or bottom edge returns true
\* and a point of the right or top edge returns false.
C21_Containment ==
    \A k \in 1..Len(geoAnswers) :
        /\ geoAnswers[k] = geoAnswers[1]
        /\ geoPoint \in geoShape.inside => geoAnswers[k] = TRUE
        /\ geoPoint \in geoShape.outside => geoAnswers[k] = FALSE
        /\ (geoShape.rect /\ OnLeftOrBottom(geoPoint, geoShape.ring))
              => geoAnswers[k] = TRUE
        /\ (geoShape.rect /\ OnRightOrTop(geoPoint, geoShape.ring))
              => geoAnswers[k] = FALSE

\* Two calls on a point of the left edge of a rectangle have returned true.
C21_Witness ==
    /\ Len(geoAnswers) = MaxCalls
    /\ geoShape # <<>>
    /\ geoShape.rect
    /\ geoPoint = <<0, 1>>
    /\ geoAnswers[MaxCalls] = TRUE

\* ------------------------------------------------------------------------
\* Coverage of one visit (hook useVisitCoverage)
\* ------------------------------------------------------------------------

\* most pings of the visit whose coverage is computed
MaxCovPings == 2

\* Square metres in a hectare: the divisor of `turf.area(...) / 10000`.
SquareMetersPerHectare == 10000

\* A JavaScript number: a non-negative fraction n / d, Infinity or NaN.
\* Areas, distances and speeds are never negative, so no sign is kept.
RECURSIVE Gcd(_, _)
Gcd(a, b) == IF b = 0 THEN a ELSE Gcd(b, a % b)

\* The fraction is kept in lowest terms.
Num(n, d) ==
    [kind |-> "num", n |-> n \div Gcd(n, d), d |-> d \div Gcd(n, d)]

Infinity == [kind |-> "inf", n |-> 1, d |-> 0]

NaN == [kind |-> "nan", n |-> 0, d |-> 0]

\* a / b
JsDiv(a, b) ==
    IF a.kind = "nan" \/ b.kind = "nan" THEN NaN
    ELSE IF a.kind = "inf" THEN (IF b.kind = "inf" THEN NaN ELSE Infinity)
    ELSE IF b.kind = "inf" THEN Num(0, 1)
    ELSE IF b.n = 0 THEN (IF a.n = 0 THEN NaN ELSE Infinity)
    ELSE Num((a.n \div Gcd(a.n, b.n)) * (b.d \div Gcd(a.d, b.d)),
             (a.d \div Gcd(a.d, b.d)) * (b.n \div Gcd(a.n, b.n)))

\* a * b
JsMul(a, b) ==
    IF a.kind = "nan" \/ b.kind = "nan" THEN NaN
    ELSE IF a.kind = "inf" THEN (IF b.n = 0 THEN NaN ELSE Infinity)
    ELSE IF b.kind = "inf" THEN (IF a.n = 0 THEN NaN ELSE Infinity)
    ELSE Num((a.n \div Gcd(a.n, b.d)) * (b.n \div Gcd(b.n, a.d)),
             (a.d \div Gcd(b.n, a.d)) * (b.d \div Gcd(a.n, b.d)))

\* Math.min without the clamp: the second argument.
MathMinSecond(a, b) == b

\* Math.min(a, b): NaN if either argument is NaN.
MathMin(a, b) ==
    IF a.kind = "nan" \/ b.kind = "nan" THEN NaN
    ELSE IF a.kind = "inf" THEN b
    ELSE IF b.kind = "inf" THEN a
    ELSE IF a.n * b.d <= b.n * a.d THEN a ELSE b

\* Ping speeds: null, 0 or a positive speed.
CovSpeeds == {<<>>, <<0>>, <<6>>, <<9>>}

\* turf.area of the block, in square metres; 0 for a geometry without area.
BlockAreas == {0, 20000, 40000}

\* turf.area of the buffered path, in square metres; a polygon turf builds
\* has an area above 0.
BufferAreas == {10000, 30000, 50000}

\* turf.length of the path, in metres.
PathLengths == {0, 120}

\* What turf.intersect gives for a block and a buffered path of the given
\* areas: it throws, or returns null, a MultiPolygon, or a Polygon no larger
\* than either.
IntersectOutcomes(blockArea, bufferArea) ==
    {[type |-> t, area |-> 0] : t \in {"throws", "null", "MultiPolygon"}}
    \cup {[type |-> "Polygon", area |-> a] :
             a \in {a \in {10000, 20000} : a <= blockArea /\ a <= bufferArea}}

\* What turf.difference gives: it throws, or returns null, a Polygon, or a
\* MultiPolygon of two polygons.
DifferenceOutcomes ==
    {[type |-> "throws", parts |-> 0], [type |-> "null", parts |-> 0],
     [type |-> "Polygon", parts |-> 1], [type |-> "MultiPolygon", parts |-> 2]}

\* The arguments of the hook with what the turf calls give on them.
\* throws: one of lineString, length, area and buffer throws.
\* buffer: undefined, or the area of the buffered path.
CovInputs ==
    {[block |-> b, speeds |-> s, throws |-> th, distance |-> dist,
      blockArea |-> ba, buffer |-> bf, intersect |-> i, difference |-> d] :
        b \in BOOLEAN,
        s \in UNION {[1..n -> CovSpeeds] : n \in 0..MaxCovPings},
        th \in BOOLEAN,
        dist \in PathLengths,
        ba \in BlockAreas,
        bf \in {<<>>} \cup {<<a>> : a \in BufferAreas},
        i \in IntersectOutcomes(40000, 50000),
        d \in DifferenceOutcomes}

RECURSIVE SumOf(_, _)
SumOf(speeds, k) ==
    IF k > Len(speeds) THEN 0 ELSE speeds[k] + SumOf(speeds, k + 1)

\* missedAreas: the difference itself, or one polygon for each part of a
\* MultiPolygon, with properties {id: idx}.
MissedAreas(difference) ==
    IF difference.type = "Polygon" THEN <<[id |-> <<>>]>>
    ELSE IF difference.type = "MultiPolygon"
      THEN [idx \in 1..difference.parts |-> [id |-> <<idx - 1>>]]
    ELSE <<>>

\* The callback of useMemo: null (an empty sequence) or the stats record.
useVisitCoverage(in) ==
    IF ~in.block \/ Len(in.speeds) < 2 THEN <<>>
    ELSE IF in.throws THEN <<>>
    ELSE
      LET speeds == SelectSeq(in.speeds, LAMBDA s : s # <<>> /\ s[1] > 0)
          values == [k \in 1..Len(speeds) |-> speeds[k][1]]
          averageSpeed == IF Len(speeds) > 0
                            THEN JsDiv(Num(SumOf(values, 1), 1),
                                       Num(Len(speeds), 1))
                            ELSE Num(0, 1)
          maxSpeed == IF Len(speeds) > 0
                        THEN MaxOf({values[k] : k \in 1..Len(values)})
                        ELSE 0
          coveredPolygon == IF in.intersect.type = "Polygon"
                              THEN <<in.intersect.area>> ELSE <<>>
          coveredArea ==
              IF in.buffer = <<>> THEN Num(0, 1)
              ELSE IF coveredPolygon # <<>>
                THEN JsDiv(Num(coveredPolygon[1], 1),
                           Num(SquareMetersPerHectare, 1))
                ELSE JsDiv(Num(in.buffer[1], 1),
                           Num(SquareMetersPerHectare, 1))
          coveragePercentage ==
              MathMin(Num(100, 1),
                      JsMul(JsDiv(JsMul(coveredArea,
                                        Num(SquareMetersPerHectare, 1)),
                                  Num(in.blockArea, 1)),
                            Num(100, 1)))
      IN IF in.buffer = <<>>
           THEN <<[averageSpeed |-> averageSpeed,
                   maxSpeed |-> maxSpeed,
                   coveragePercentage |-> Num(0, 1),
                   coveredArea |-> Num(0, 1),
                   totalDistance |-> in.distance,
                   missedAreas |-> <<>>]>>
           ELSE <<[averageSpeed |-> averageSpeed,
                   maxSpeed |-> maxSpeed,
                   coveragePercentage |-> coveragePercentage,
                   coveredArea |-> coveredArea,
                   totalDistance |-> in.distance,
                   missedAreas |-> MissedAreas(in.difference)]>>

\* The intersection, when it is a Polygon, lies in the block and in the
\* buffered path.
CovConsistent(in) ==
    in.intersect.type = "Polygon" =>
        /\ in.buffer # <<>>
        /\ in.intersect.area <= in.buffer[1]
        /\ in.intersect.area <= in.blockArea

CovInit ==
    /\ covIn \in {<<in>> : in \in {c \in CovInputs : CovConsistent(c)}}
    /\ covStats = <<>>
    /\ CoreOff
    /\ GeoOff
    /\ LiveOff
    /\ ConOff
    /\ PageOff

\* useMemo runs the callback on (block, pings).
CovCompute ==
    /\ covStats = <<>>
    /\ covStats' = <<useVisitCoverage(covIn[1])>>
    /\ UNCHANGED <<covIn, covRest>>

CovNext == CovCompute

SpecCov == CovInit /\ [][CovNext]_vars

\* The hook has returned a stats record.
CovReturned == covStats # <<>> /\ covStats[1] # <<>>

\* C22: whenever useVisitCoverage returns stats, coveragePercentage is a
\* number from 0 to 100, whatever the areas of the block, of the buffered
\* path and of their intersection, and whether or not the intersection failed.
C22_CoverageWithinBounds ==
    CovReturned =>
        LET pct == covStats[1][1].coveragePercentage
        IN /\ pct.kind = "num"
           /\ pct.d > 0
           /\ 0 <= pct.n
           /\ pct.n <= 100 * pct.d

\* The buffered path is larger than the block, the intersection failed, and
\* the percentage returned is 100.
C22_Witness ==
    /\ CovReturned
    /\ covIn[1].buffer # <<>>
    /\ covIn[1].blockArea > 0
    /\ covIn[1].buffer[1] > covIn[1].blockArea
    /\ covIn[1].intersect.type = "throws"
    /\ covStats[1][1].coveragePercentage = Num(100, 1)

\* The hook had a block, 2 pings or more and a buffered path, and none of
\* lineString, length, area and buffer threw.
CovReachedBooleanOps ==
    /\ covStats # <<>>
    /\ covIn[1].block
    /\ Len(covIn[1].speeds) >= 2
    /\ ~covIn[1].throws
    /\ covIn[1].buffer # <<>>

IntersectFailed == covIn[1].intersect.type # "Polygon"

DifferenceFailed == covIn[1].difference.type \in {"throws", "null"}

\* C23: when intersect or difference fails, the hook still returns stats,
\* with coveredArea the area of the buffered path in hectares and missedAreas
\* the empty list.
C23_GeometryFailureDegrades ==
    (CovReachedBooleanOps /\ (IntersectFailed \/ DifferenceFailed)) =>
        /\ covStats[1] # <<>>
        /\ covStats[1][1].coveredArea.kind = "num"
        /\ covStats[1][1].coveredArea.n * SquareMetersPerHectare
              = covIn[1].buffer[1] * covStats[1][1].coveredArea.d
        /\ covStats[1][1].missedAreas = <<>>

\* C24: the hook returns null exactly when the block is missing or the
\* visit has fewer than 2 pings.
C24_NullIffNoData ==
    covStats # <<>> =>
        ((covStats[1] = <<>>)
            <=> (~covIn[1].block \/ Len(covIn[1].speeds) < 2))

\* ------------------------------------------------------------------------
\* The paginated read of gps_pings, one page per step
\* ------------------------------------------------------------------------

\* Timestamps of the stored pings of the read.
PageTimes == {0, 1, 2}

\* The scopes read: every set of pings of two tractors at these timestamps.
PageScopes ==
    SUBSET {Ping(t, ts, PointInA) : t \in Tractors, ts \in PageTimes}

PageInit ==
    /\ pageRows \in PageScopes
    /\ pagePc = "read"
    /\ pageAll = <<>>
    /\ pageOffset = 0
    /\ pageByTractor = <<>>
    /\ CoreOff
    /\ GeoOff
    /\ CovOff
    /\ LiveOff
    /\ ConOff

\* pingsByTractor: the pings of each tractor in the order of allPings.
GroupByTractor(all) ==
    [t \in {all[k].tractor_id : k \in 1..Len(all)} |-> PingsOfTractor(all, t)]

\* One iteration of while (hasMore): await pingsQuery.range(offset, offset +
\* pageSize - 1).  Each page is a query of its own: the rows come ascending in
\* ts, and rows of equal ts in whatever order that query gives them.  When
\* the loop ends the pings are grouped by tractor.
PageRead ==
    /\ pagePc = "read"
    /\ \E ok \in BOOLEAN :
        IF ~ok
          THEN /\ pagePc' = "thrown"
               /\ UNCHANGED <<pageAll, pageOffset, pageByTractor>>
          ELSE \E rows \in OrderedByTs(pageRows) :
                 LET pings == PageOf(rows, pageOffset)
                     hasMore == Len(pings) # 0 /\ Len(pings) = PageSize
                     all == pageAll \o pings
                 IN /\ pageAll' = all
                    /\ pageOffset' = IF Len(pings) = 0 THEN pageOffset
                                     ELSE pageOffset + PageSize
                    /\ pagePc' = IF hasMore THEN "read" ELSE "done"
                    /\ pageByTractor' = IF hasMore THEN <<>>
                                        ELSE <<GroupByTractor(all)>>
    /\ UNCHANGED <<pageRows, pageRest>>

PageNext == PageRead

SpecPage == PageInit /\ [][PageNext]_vars

\* The read loop is scheduled until it ends.
SpecPageFair == SpecPage /\ WF_vars(PageNext)

\* The read has ended without a storage error.
PageDone == pagePc = "done"

\* C25: the read loop ends, and a read that ended has collected every ping of
\* the scope exactly once, ascending in ts within each tractor.
C25_PaginatedReadCollectsAll ==
    PageDone =>
        /\ Len(pageAll) = Cardinality(pageRows)
        /\ {pageAll[k] : k \in 1..Len(pageAll)} = pageRows
        /\ \A t \in DOMAIN pageByTractor[1] :
             \A i \in 1..Len(pageByTractor[1][t]) :
               \A j \in 1..Len(pageByTractor[1][t]) :
                 i < j => pageByTractor[1][t][i].ts <= pageByTractor[1][t][j].ts

\* The read loop ends.
C25_ReadTerminates == <>(pagePc \in {"done", "thrown"})

\* ------------------------------------------------------------------------
\* The live loop (hook useGpsSimulator), one tick of one tractor per step
\* ------------------------------------------------------------------------

\* ticks of the live loop in one behaviour
MaxTicks == 3

LiveTractor == "t1"

\* Two blocks that overlap and one apart from both.
LiveRings ==
    [b1 |-> << <<0, 0>>, <<4, 0>>, <<4, 4>>, <<0, 4>>, <<0, 0>> >>,
     b2 |-> << <<2, 0>>, <<6, 0>>, <<6, 4>>, <<2, 4>>, <<2, 0>> >>,
     b3 |-> << <<8, 0>>, <<10, 0>>, <<10, 4>>, <<8, 4>>, <<8, 0>> >>]

\* `blocks` in the orders the query may list them.
LiveBlockLists == {<<"b1", "b2", "b3">>, <<"b2", "b1", "b3">>,
                   <<"b3", "b2", "b1">>}

\* Positions: in b1 only, in b1 and b2, in b2 only, in no block, in b3.
LivePoints == {<<1, 1>>, <<3, 1>>, <<5, 1>>, <<7, 1>>, <<9, 1>>}

\* The point lies on the segment from a to b.
OnSegment(pt, a, b) ==
    /\ (pt[1] - a[1]) * (b[2] - a[2]) = (pt[2] - a[2]) * (b[1] - a[1])
    /\ (pt[1] - a[1]) * (pt[1] - b[1]) <= 0
    /\ (pt[2] - a[2]) * (pt[2] - b[2]) <= 0

\* booleanPointInPolygon(point, polygon) of turf with its default options: a
\* point of the boundary counts as inside.
booleanPointInPolygon(pt, ring) ==
    \/ \E k \in 1..(Len(ring) - 1) : OnSegment(pt, ring[k], ring[k + 1])
    \/ isPointInPolygon(pt, ring)

\* The for loop of checkBlockVisit from position k of blocks on, with the
\* tractor's lastBlockId and the onBlockVisit calls made so far.
RECURSIVE checkBlockVisit(_, _, _, _, _, _)
checkBlockVisit(pt, list, k, last, visits, tick) ==
    IF k > Len(list) THEN [last |-> last, visits |-> visits]
    ELSE LET isInside == booleanPointInPolygon(pt, LiveRings[list[k]])
         IN IF isInside /\ last # <<list[k]>>
              THEN [last |-> <<list[k]>>,
                    visits |-> visits \cup {<<tick, list[k]>>}]
            ELSE IF ~isInside /\ last = <<list[k]>>
              THEN checkBlockVisit(pt, list, k + 1, <<>>, visits, tick)
            ELSE checkBlockVisit(pt, list, k + 1, last, visits, tick)

RECURSIVE PathsOfLen(_)
PathsOfLen(n) ==
    IF n = 0 THEN {<<>>}
    ELSE {Append(path, pt) : path \in PathsOfLen(n - 1), pt \in LivePoints}

LiveInit ==
    /\ liveBlocks \in LiveBlockLists
    /\ livePath \in UNION {PathsOfLen(n) : n \in 0..MaxTicks}
    /\ liveTick = 0
    /\ liveLast = <<>>
    /\ liveVisits = {}
    /\ CoreOff
    /\ GeoOff
    /\ CovOff
    /\ ConOff
    /\ PageOff

\* updateTractorPosition of one tick: the tractor's state exists, its new
\* position goes to checkBlockVisit.
LiveTick ==
    /\ liveTick < Len(livePath)
    /\ LET r == checkBlockVisit(livePath[liveTick + 1], liveBlocks, 1,
                                liveLast, liveVisits, liveTick + 1)
       IN /\ liveLast' = r.last
          /\ liveVisits' = r.visits
    /\ liveTick' = liveTick + 1
    /\ UNCHANGED <<liveBlocks, livePath, liveRest>>

LiveNext == LiveTick

SpecLive == LiveInit /\ [][LiveNext]_vars

\* The positions fed so far, as pings of the tractor stamped with their tick.
LivePings ==
    [k \in 1..liveTick |-> Ping(LiveTractor, k, livePath[k])]

\* The state of the batch segmenter after these pings, for block b.
BatchState(b) == SegmentFrom(SegmentInit, LivePings, 1, LiveRings[b])

\* The ticks at which the batch segmenter opens a raw interval for block b.
BatchOpenings(b) ==
    LET st == BatchState(b)
    IN {st.rawVisits[k].started_at : k \in 1..Len(st.rawVisits)}
       \cup {st.currentVisit[k].started_at : k \in 1..Len(st.currentVisit)}

\* C26: after every tick and for every block b, the live loop holds the
\* tractor inside b exactly when the batch segmenter has an open interval for
\* b, and it has reported an entry into b at exactly the ticks where the batch
\* segmenter opens a raw interval for b.
C26_LiveAgreesWithBatch ==
    \A k \in 1..Len(liveBlocks) :
        LET b == liveBlocks[k]
        IN /\ (liveLast = <<b>>) <=> (BatchState(b).currentVisit # <<>>)
           /\ {v[1] : v \in {w \in liveVisits : w[2] = b}} = BatchOpenings(b)

\* ------------------------------------------------------------------------
\* Claims on the reprocessing run: duplicates and result accounting
\* ------------------------------------------------------------------------

\* C27: after a run that ended with the results response, also one in which
\* the delete of a block's old visits failed, the stored visits of every
\* processed block hold no two rows with the same tractor_id, started_at and
\* ended_at.
C27_NoDuplicateVisits ==
    RunCompleted =>
        \A v \in DOMAIN block_visits :
            v.block_id \in ProcessedBlocks(req) =>
                /\ block_visits[v] = 1
                /\ \A w \in DOMAIN block_visits :
                      (/\ w.block_id = v.block_id
                       /\ w.tractor_id = v.tractor_id
                       /\ w.started_at = v.started_at
                       /\ w.ended_at = v.ended_at) => w = v

RECURSIVE SumOver(_, _)
SumOver(S, f) ==
    IF S = {} THEN 0
    ELSE LET x == CHOOSE y \in S : TRUE
         IN f[x] + SumOver(S \ {x}, f)

\* Visits the run of request r computes, over the blocks it processes.
ComputedVisits(r) ==
    SumOver(ProcessedBlocks(r),
            [b \in ProcessedBlocks(r) |-> Cardinality(ExpectedRows(b, r))])

\* Visits stored in the scopes the run of request r processes.
StoredVisits(r) ==
    SumOver(ProcessedBlocks(r),
            [b \in ProcessedBlocks(r) |->
                BagCardinality(ScopeOf(block_visits, b, r))])

\* The offsets at which the batch loop slices `rows`.
BatchStarts(rows) == {i \in 0..(Len(rows) - 1) : i % BatchSize = 0}

\* The batches hold 1 to BatchSize rows, and every position of `rows` is in
\* exactly one of them.
BatchesPartition(rows) ==
    /\ \A i \in BatchStarts(rows) :
          /\ Len(BatchOf(rows, i)) >= 1
          /\ Len(BatchOf(rows, i)) <= BatchSize
          /\ \A j \in 1..Len(BatchOf(rows, i)) : BatchOf(rows, i)[j] = rows[i + j]
    /\ \A k \in 1..Len(rows) :
          Cardinality({i \in BatchStarts(rows) :
                          i < k /\ k <= i + Len(BatchOf(rows, i))}) = 1

\* The storage call of this step succeeded.
CallSucceeded == nfaults' = nfaults

\* The step is the insert of one batch, or the upsert of a block's metrics.
InsertStep == pc = "insert" /\ pc' \in {"insert", "upsert"}

UpsertStep == pc = "upsert" /\ pc' \in {"delete", "responded"}

\* What holds of the counters at every state of a run.
AccountingState ==
    /\ pc = "insert" =>
          /\ batchAt \in BatchStarts(VisitsToInsert(CurBlock, CurBlockVisits))
          /\ BatchesPartition(VisitsToInsert(CurBlock, CurBlockVisits))
    /\ RunCompleted =>
          /\ response[1].body.visitsCreated = results.visitsCreated
          /\ response[1].body.metricsUpdated = results.metricsUpdated
          /\ results.visitsCreated <= ComputedVisits(req)
          /\ results.metricsUpdated <= Cardinality(BlocksQuery(req))
    /\ (RunCompleted /\ faults = {}) =>
          /\ results.visitsCreated = StoredVisits(req)
          /\ results.visitsCreated = ComputedVisits(req)

\* What holds of the counters at every step of a run.
AccountingStep ==
    /\ InsertStep =>
          results'.visitsCreated =
              results.visitsCreated
              + (IF CallSucceeded
                   THEN Len(BatchOf(VisitsToInsert(CurBlock, CurBlockVisits),
                                    batchAt))
                   ELSE 0)
    /\ InsertStep => results'.metricsUpdated = results.metricsUpdated
    /\ UpsertStep =>
          results'.metricsUpdated =
              results.metricsUpdated + (IF CallSucceeded THEN 1 ELSE 0)
    /\ UpsertStep => results'.visitsCreated = results.visitsCreated
    /\ (pc = "delete" /\ pc' \in {"insert", "upsert"}) =>
          /\ results'.visitsCreated = results.visitsCreated
          /\ results'.metricsUpdated = results.metricsUpdated

\* C29: the visits of a block are inserted in batches of at most BatchSize
\* rows, each computed visit in exactly one batch; visitsCreated grows by the
\* size of every batch whose insert succeeded and by nothing else, and
\* metricsUpdated by one for every upsert that succeeded; so at the end
\* visitsCreated is at most the number of visits computed, metricsUpdated at
\* most the number of target blocks, and after a run without a storage error
\* visitsCreated is the number of visits stored for the processed scopes.
C29_ResultAccounting ==
    []AccountingState /\ [][AccountingStep]_vars

\* A run over both blocks ended in which one batch of a block of two batches
\* failed: fewer visits were created than computed, and both metrics rows
\* were written.
C29_Witness ==
    /\ RunCompleted
    /\ \E f \in faults : f.op = "insert"
    /\ results.visitsCreated > 0
    /\ results.visitsCreated < ComputedVisits(req)
    /\ results.metricsUpdated = 2

\* ------------------------------------------------------------------------
\* Claims on the import: accounting
\* ------------------------------------------------------------------------

\* The ping passes the four tests of the import contract: latitude in
\* [-90, 90], longitude in [-180, 180], a timestamp that parses and lies no
\* more than one hour ahead of the clock.
PingIsValid(ping, clock) ==
    /\ -90 <= ping.lat /\ ping.lat <= 90
    /\ -180 <= ping.lon /\ ping.lon <= 180
    /\ ping.ts.form # "invalid"
    /\ ping.ts.at <= clock + 60

\* The rows of gps_pings request n inserted.
RowsOf(n) == {row \in gps_pings : row.id[1] = n}

\* C30: every 200 response of the import has inserted + duplicates + errors
\* equal to total, the number of pings of the request, and inserted equal to
\* the number of rows the request stored; every row a request stored comes
\* from a ping of its body that passes validation.
C30_ImportAccounting ==
    \A n \in ImportIds :
        /\ (imports[n].response # <<>> /\ imports[n].response[1].status = 200)
              => LET stats == imports[n].response[1].stats
                 IN /\ stats.total = Len(imports[n].pings)
                    /\ stats.inserted + stats.duplicates + stats.errors
                          = stats.total
                    /\ stats.inserted = Cardinality(RowsOf(n))
        /\ \A row \in RowsOf(n) :
              \E j \in 1..Len(imports[n].pings) :
                 /\ PingIsValid(imports[n].pings[j], now)
                 /\ row.tractor_id = imports[n].tractor_id
                 /\ row.ts = imports[n].pings[j].ts.at
                 /\ row.lat = imports[n].pings[j].lat
                 /\ row.lon = imports[n].pings[j].lon

\* A request of two pings, one refused by validation and one inserted, has
\* been answered while the other request, of a stored timestamp and a ping
\* whose insert failed, has been answered too.
C30_Witness ==
    \E n \in ImportIds : \E m \in ImportIds \ {n} :
        /\ imports[n].response # <<>>
        /\ imports[n].response[1].status = 200
        /\ imports[n].response[1].stats.total = 2
        /\ imports[n].response[1].stats.errors = 1
        /\ imports[n].response[1].stats.inserted = 1
        /\ Len(imports[n].validPings) = 1
        /\ imports[m].response # <<>>
        /\ imports[m].response[1].status = 200
        /\ imports[m].response[1].stats.duplicates = 1
        /\ imports[m].response[1].stats.errors = 1
        /\ Len(imports[m].validPings) = 2

\* ------------------------------------------------------------------------
\* Two reprocessing requests for one block at once, one storage call per step
\* ------------------------------------------------------------------------

ConIds == {1, 2}

ConBlock == "b1"

\* Both requests name the tenant and the block, and no tractor.
ConRequest == [block_id |-> <<ConBlock>>, tractor_id |-> <<>>]

\* The ping sets of the tenant: the routes of the two tractors, not both empty.
ConPings ==
    {RoutePings("t1", r1) \cup RoutePings("t2", r2) :
        r1 \in Routes("t1"), r2 \in Routes("t2")} \ {{}}

\* Each request has read the blocks and the pings, which do not change, and
\* has computed blockVisits of the block; it is about to delete.  The table
\* is empty or holds the rows an earlier run stored.
ConInit ==
    /\ \E pings \in ConPings :
          /\ \E all1 \in OrderedByTs(pings), all2 \in OrderedByTs(pings) :
                conRuns = [n \in ConIds |->
                    [pc |-> "delete", batchAt |-> 0, errors |-> <<>>,
                     blockVisits |-> BlockVisitsOf(IF n = 1 THEN all1 ELSE all2,
                                                   RingA)]]
          /\ \E all \in OrderedByTs(pings) :
                conVisits \in
                  {EmptyBag,
                   InsertRows(EmptyBag,
                              VisitsToInsert(ConBlock, BlockVisitsOf(all, RingA)),
                              1)}
    /\ conMetrics = <<>>
    /\ CoreOff
    /\ GeoOff
    /\ CovOff
    /\ LiveOff
    /\ PageOff

ConPushError(n, ok, what) ==
    IF ok THEN conRuns[n].errors
    ELSE Append(conRuns[n].errors, ErrorOf(ConBlock, what))

\* await delete of the block's old visits
ConDelete(n) ==
    /\ conRuns[n].pc = "delete"
    /\ \E ok \in BOOLEAN :
        /\ conVisits' = IF ok THEN DeleteRows(conVisits, ConBlock, ConRequest)
                        ELSE conVisits
        /\ conRuns' = [conRuns EXCEPT ![n] =
             [@ EXCEPT !.pc = IF Len(conRuns[n].blockVisits) > 0
                                THEN "insert" ELSE "upsert",
                       !.errors = ConPushError(n, ok,
                                               "Error deleting old visits")]]
    /\ UNCHANGED <<conMetrics, conRest>>

\* await insert of one batch
ConInsert(n) ==
    /\ conRuns[n].pc = "insert"
    /\ LET rows == VisitsToInsert(ConBlock, conRuns[n].blockVisits)
           batch == BatchOf(rows, conRuns[n].batchAt)
       IN \E ok \in BOOLEAN :
            /\ conVisits' = IF ok THEN InsertRows(conVisits, batch, 1)
                            ELSE conVisits
            /\ conRuns' = [conRuns EXCEPT ![n] =
                 [@ EXCEPT !.pc = IF conRuns[n].batchAt + BatchSize < Len(rows)
                                    THEN "insert" ELSE "upsert",
                           !.batchAt = @ + BatchSize,
                           !.errors = ConPushError(n, ok,
                                                   "Error inserting visits")]]
    /\ UNCHANGED <<conMetrics, conRest>>

\* The clock is read twice, then await upsert of the block's metrics and the
\* response.
ConUpsert(n) ==
    /\ conRuns[n].pc = "upsert"
    /\ \E clock \in ClockValues :
       \E stamp \in {c \in ClockValues : c >= clock} : \E ok \in BOOLEAN :
        /\ conMetrics' =
             IF ok THEN <<MetricsUpdate(ConBlock, conRuns[n].blockVisits,
                                        clock, stamp)>>
             ELSE conMetrics
        /\ conRuns' = [conRuns EXCEPT ![n] =
             [@ EXCEPT !.pc = "done",
                       !.errors = ConPushError(n, ok,
                                               "Error updating metrics")]]
    /\ UNCHANGED <<conVisits, conRest>>

ConNext == \E n \in ConIds : ConDelete(n) \/ ConInsert(n) \/ ConUpsert(n)

SpecCon == ConInit /\ [][ConNext]_vars

\* Both requests have been answered and no storage call of either failed.
ConBothDone ==
    /\ conRuns # <<>>
    /\ \A n \in ConIds : conRuns[n].pc = "done" /\ conRuns[n].errors = <<>>

\* C28: once two concurrent requests for the same block have both finished
\* without a storage error, the stored visits of the block are the rows one
\* run computes, each once, and total_passes of the block is their number.
C28_ConcurrentRunsAsOne ==
    ConBothDone =>
        /\ conVisits
             = SetToBag(SeqRange(VisitsToInsert(ConBlock,
                                                conRuns[1].blockVisits)))
        /\ conMetrics # <<>>
        /\ conMetrics[1].total_passes = BagCardinality(conVisits)

=============================================================================
